---- MODULE Spec2Model ----
(***************************************************************************)
(* A model of the clean-elt data quality checker: the business rule        *)
(* engine (validators/business_rules.py), the batch COPY manager           *)
(* (utils/batch_copy.py), the Redshift integration                         *)
(* (services/redshift_integration.py) and the report processor             *)
(* (processors/report.py).                                                 *)
(*                                                                         *)
(* External collaborators (S3, Redshift, SSM/STS, DynamoDB) are modelled   *)
(* by their outcomes: every call that can raise or fail does so by a       *)
(* nondeterministic choice.  Log emission (log_info, log_error, ...) is    *)
(* taken to succeed.  ErrorLogger.get_timestamp, ErrorLogger.error and     *)
(* StructuredLogger.log_warning are called by the code but defined nowhere *)
(* under src/, so a call to one of them either returns or raises           *)
(* (AttributeError as the classes stand).                                  *)
(***************************************************************************)
EXTENDS Integers, Sequences, FiniteSets, TLC

\* ---------------------------------------------------------------- bounds
MaxFiles == 3
MaxRules == 2
MaxTasks == 3
MaxRecords == 2
MaxCalls == 3
MaxRows == 3

\* ------------------------------------------------------------- constants
\* models/enums.py ReportType (two of the three members are explored)
ReportTypes == {"SALES", "INVENTORY"}
SummaryStatuses == {"SUCCESS", "FAILED"}
ValidRowsVals == {0, 2}

VARIABLES
    batch,      \* the running batch_copy_with_manifest call
    staging,    \* manifest objects present in the manifest bucket
    io,         \* commands issued to S3 and Redshift, in order
    rule_store,             \* the validation-rules table, per report type
    rules_cache,            \* BusinessRulesValidator._rules_cache
    compiled_expressions,   \* BusinessRulesValidator._compiled_expressions
    optimized_cache,        \* the lru_cache of get_rules_optimized
    fast_fail_enabled,      \* BusinessRulesValidator._fast_fail_enabled
    exec,       \* the last execute_rules call and what it returned
    pool,       \* the running batch_copy_files call and its futures
    reports,    \* the running process_reports call
    call,       \* the last direct call of one operation and what it gave
    redshift,   \* one RedshiftService: its pool and the operations on it
    threads,    \* the threads running execute_rules on one validator
    processing  \* one run of a processor's process(bucket, key)

batchVars == <<batch, staging, io>>
ruleVars == <<rule_store, rules_cache, compiled_expressions, optimized_cache,
              fast_fail_enabled, exec>>
vars == <<batch, staging, io, rule_store, rules_cache, compiled_expressions,
          optimized_cache, fast_fail_enabled, exec, pool, reports, call,
          redshift, threads, processing>>

\* ------------------------------------------------------------ sequences
Range(s) == {s[i] : i \in DOMAIN s}

SeqsUpTo(S, n) == UNION {[1..k -> S] : k \in 0..n}

\* no operation was called directly yet
CallIdle == [op |-> "none"]

\* ===================================================== utils/batch_copy.py

\* A file batch as _execute_batch_copy and create_manifest_copy build it.
\* s3_path is the position of the file in the submitted list.
FileBatch(p, t, st, v) ==
    [s3_path |-> p, report_type |-> t,
     validation_summary |-> [status |-> st, valid_rows |-> v]]

FileBatchInputs ==
    {[i \in DOMAIN f |-> FileBatch(i, f[i][1], f[i][2], f[i][3])] :
        f \in SeqsUpTo(ReportTypes \X SummaryStatuses \X ValidRowsVals, MaxFiles)}

\* _group_files_by_type, line 134: the empty dict.  A dict keeps its keys
\* in insertion order (`order`); a key not in `order` is not in the dict.
NoGroups == [order |-> <<>>, files |-> [t \in ReportTypes |-> <<>>]]

\* the loop body as it would be with insert(0, batch) for append(batch)
group_prepend(grouped, file_batch) ==
    [order |-> IF file_batch.report_type \in Range(grouped.order)
               THEN grouped.order
               ELSE Append(grouped.order, file_batch.report_type),
     files |-> [grouped.files EXCEPT
                   ![file_batch.report_type] = <<file_batch>> \o @]]

\* lines 137-140: the body of the loop for one batch
group_append(grouped, file_batch) ==
    [order |-> IF file_batch.report_type \in Range(grouped.order)
               THEN grouped.order
               ELSE Append(grouped.order, file_batch.report_type),
     files |-> [grouped.files EXCEPT
                   ![file_batch.report_type] = Append(@, file_batch)]]

\* lines 136-140: the loop over file_batches
RECURSIVE group_loop(_, _)
group_loop(file_batches, grouped) ==
    IF file_batches = <<>> THEN grouped
    ELSE group_loop(Tail(file_batches),
                    group_append(grouped, Head(file_batches)))

\* _group_files_by_type
group_files_by_type(file_batches) == group_loop(file_batches, NoGroups)

\* _group_files_by_type called on a list: the dict it returns and the list
\* as the call leaves it (the loop reads the list and assigns to none of
\* its items)
group_call(file_batches) ==
    [op |-> "group", file_batches |-> file_batches,
     grouped |-> group_files_by_type(file_batches),
     after |-> file_batches]

\* one call; the function keeps nothing from one call to the next
GroupFiles ==
    /\ call = CallIdle
    /\ \E file_batches \in FileBatchInputs :
          call' = group_call(file_batches)
    /\ UNCHANGED <<processing, redshift, threads, batchVars, ruleVars, pool, reports>>

\* _copy_with_manifest lines 153-159: the manifest entries
RECURSIVE manifest_entries(_)
manifest_entries(files) ==
    IF files = <<>> THEN <<>>
    ELSE LET fb == Head(files) IN
         (IF fb.validation_summary.status = "SUCCESS"
          THEN <<[url |-> fb.s3_path, mandatory |-> TRUE]>>
          ELSE <<>>) \o manifest_entries(Tail(files))

\* One command issued to an external service.
Event(op, t, paths, entries, ok) ==
    [op |-> op, cat |-> t, paths |-> paths, entries |-> entries, ok |-> ok]

Urls(entries) == [i \in DOMAIN entries |-> entries[i].url]

\* What a call leaves behind: a returned status, or an exception that
\* escapes the callee (res = "RAISE"), and the commands it issued.
Outcome(res, ev) == [res |-> res, ev |-> ev]

\* The faults the environment may inject into one category's load.
Faults == [ts : BOOLEAN, put : BOOLEAN, role : BOOLEAN, del : BOOLEAN,
           copy : {"SUCCESS", "FAILED", "RAISE"}]

\* a manifest COPY that is issued whether or not put_object succeeded
copy_after_failed_put(files, t, f) ==
    LET entries == manifest_entries(files)
        ok == (f.copy = "SUCCESS")
    IN  IF entries = <<>> THEN Outcome("SKIPPED", <<>>)
        ELSE Outcome(IF ok /\ ~f.put THEN "SUCCESS" ELSE "FAILED",
                     <<Event("put", t, Urls(entries), entries, ~f.put),
                       Event("copy_manifest", t, Urls(entries), <<>>, ok),
                       Event("delete", t, <<>>, <<>>, TRUE)>>)

\* _copy_with_manifest
copy_with_manifest(files, t, f) ==
    LET entries == manifest_entries(files)
        put(ok) == Event("put", t, Urls(entries), entries, ok)
        cpy(ok) == Event("copy_manifest", t, Urls(entries), <<>>, ok)
        del(ok) == Event("delete", t, <<>>, <<>>, ok)
    IN  IF entries = <<>> THEN Outcome("SKIPPED", <<>>)
        \* line 170 raises before manifest_s3_path is bound: the handler's
        \* own read of it at line 205 raises out of the function
        ELSE IF f.ts THEN Outcome("RAISE", <<>>)
        ELSE IF f.put THEN Outcome("FAILED", <<put(FALSE)>>)
        ELSE IF f.role THEN Outcome("FAILED", <<put(TRUE)>>)
        \* execute_manifest_copy catches its own faults and returns FAILED
        ELSE LET ok == (f.copy = "SUCCESS") IN
             IF f.del THEN Outcome("FAILED", <<put(TRUE), cpy(ok), del(FALSE)>>)
             ELSE Outcome(IF ok THEN "SUCCESS" ELSE "FAILED",
                          <<put(TRUE), cpy(ok), del(TRUE)>>)

\* _copy_single_file_direct: try/finally only, nothing is caught
copy_single_file_direct(file_batch, f) ==
    LET t == file_batch.report_type
        cpy(ok) == Event("copy_direct", t, <<file_batch.s3_path>>, <<>>, ok)
    IN  IF f.role THEN Outcome("RAISE", <<>>)
        \* execute_copy_command reads the timestamp before its try block
        ELSE IF f.copy = "RAISE" THEN Outcome("RAISE", <<>>)
        ELSE Outcome(f.copy, <<cpy(f.copy = "SUCCESS")>>)

\* The manifests in the bucket after a run of commands.
RECURSIVE apply_events(_, _)
apply_events(stg, ev) ==
    IF ev = <<>> THEN stg
    ELSE LET e == Head(ev)
             m == [cat |-> e.cat, entries |-> e.entries]
         IN  apply_events(
                 IF e.op = "put" /\ e.ok THEN stg \cup {m}
                 ELSE IF e.op = "delete" /\ e.ok
                      THEN {x \in stg : x.cat # e.cat}
                 ELSE stg,
                 Tail(ev))

NoResults == [t \in ReportTypes |-> "NONE"]

BatchIdle == [pc |-> "idle", files |-> <<>>, order |-> <<>>, k |-> 1,
              results |-> NoResults, ret |-> "NONE"]

\* batch_copy_with_manifest is called
BatchStart ==
    /\ batch.pc = "idle"
    /\ \E file_batches \in FileBatchInputs :
          batch' = [BatchIdle EXCEPT !.pc = "loop", !.files = file_batches,
                       !.order = group_files_by_type(file_batches).order]
    /\ UNCHANGED <<processing, call, redshift, threads, staging, io, ruleVars, pool, reports>>

\* lines 105-111: one iteration of the loop over the groups
BatchCopyGroup ==
    /\ batch.pc = "loop"
    /\ batch.k <= Len(batch.order)
    /\ \E f \in Faults :
          LET t == batch.order[batch.k]
              files == group_files_by_type(batch.files).files[t]
              o == IF Len(files) > 1
                   THEN copy_with_manifest(files, t, f)
                   ELSE copy_single_file_direct(files[1], f)
          IN  /\ io' = io \o o.ev
              /\ staging' = apply_events(staging, o.ev)
              /\ batch' = IF o.res = "RAISE"
                          \* lines 119-129: {'status': 'FAILED', 'error': ...}
                          THEN [batch EXCEPT !.pc = "done", !.ret = "FAILED"]
                          ELSE [batch EXCEPT !.k = @ + 1,
                                             !.results[t] = o.res]
    /\ UNCHANGED <<processing, call, redshift, threads, ruleVars, pool, reports>>

\* lines 113-117: {'status': 'SUCCESS', 'results': results, ...}
BatchReturn ==
    /\ batch.pc = "loop"
    /\ batch.k > Len(batch.order)
    /\ batch' = [batch EXCEPT !.pc = "done", !.ret = "SUCCESS"]
    /\ UNCHANGED <<processing, call, redshift, threads, staging, io, ruleVars, pool, reports>>

\* ============================================ validators/business_rules.py

\* ------------------------------------------------ characters and strings
\* A Python str is a sequence of one-character strings.  The alphabet is
\* the characters of the rule expressions and field values explored.
Digits == {"0", "1", "2", "3", "4", "5", "6", "7", "8", "9"}

DigitVal(c) ==
    CASE c = "0" -> 0 [] c = "1" -> 1 [] c = "2" -> 2 [] c = "3" -> 3
      [] c = "4" -> 4 [] c = "5" -> 5 [] c = "6" -> 6 [] c = "7" -> 7
      [] c = "8" -> 8 [] c = "9" -> 9

\* the code point of a character: Python orders strings by code point
Ord(c) ==
    CASE c = " " -> 32 [] c = "!" -> 33 [] c \in Digits -> 48 + DigitVal(c)
      [] c = "<" -> 60 [] c = "=" -> 61 [] c = ">" -> 62 [] c = "_" -> 95
      [] c = "a" -> 97 [] c = "b" -> 98 [] c = "q" -> 113

\* \w and \s of the re module, over the alphabet
WordChars == Digits \cup {"_", "a", "b", "q"}
IsSpace(c) == c = " "

RECURSIVE LStrip(_)
LStrip(s) == IF s # <<>> /\ IsSpace(Head(s)) THEN LStrip(Tail(s)) ELSE s

RECURSIVE RStrip(_)
RStrip(s) ==
    IF s # <<>> /\ IsSpace(s[Len(s)]) THEN RStrip(SubSeq(s, 1, Len(s) - 1))
    ELSE s

\* str.strip()
Strip(s) == RStrip(LStrip(s))

\* s < t on Python strings
RECURSIVE StrLess(_, _)
StrLess(s, t) ==
    IF t = <<>> THEN FALSE
    ELSE IF s = <<>> THEN TRUE
    ELSE IF Ord(Head(s)) # Ord(Head(t)) THEN Ord(Head(s)) < Ord(Head(t))
    ELSE StrLess(Tail(s), Tail(t))

\* int(s) succeeds (no sign, dot, exponent or underscore in the alphabet)
IsInt(s) == s # <<>> /\ \A i \in DOMAIN s : s[i] \in Digits

RECURSIVE ParseInt(_)
ParseInt(s) ==
    IF s = <<>> THEN 0
    ELSE 10 * ParseInt(SubSeq(s, 1, Len(s) - 1)) + DigitVal(s[Len(s)])

\* ------------------------------------------------------- Python values
VNone == [k |-> "none", n |-> 0, s |-> <<>>]
VInt(n) == [k |-> "int", n |-> n, s |-> <<>>]
VStr(s) == [k |-> "str", n |-> 0, s |-> s]

\* _convert_to_numeric.  No value explored holds 'T', '-' or ':', so the
\* datetime branch (lines 209-220) is not entered.
convert_to_numeric(value) ==
    IF value.k = "str"
    THEN LET v == Strip(value.s) IN
         IF IsInt(v) THEN VInt(ParseInt(v)) ELSE VStr(v)
    ELSE value

\* the comparison operators of the rule grammar, in the order in which the
\* regular expressions list them: >= <= != == > <
RangeOps == << <<">", "=">>, <<"<", "=">>, <<"!", "=">>, <<"=", "=">>,
               <<">">>, <<"<">> >>

\* x op y in Python 3: "T", "F", or "E" for the TypeError of an ordering
\* comparison between an int and a str
py_compare(op, x, y) ==
    LET lt == IF x.k = "int" THEN x.n < y.n ELSE StrLess(x.s, y.s)
        eq == x = y
        b(v) == IF v THEN "T" ELSE "F"
    IN  IF x.k = y.k
        THEN CASE op = <<">">> -> b(~lt /\ ~eq)
               [] op = <<"<">> -> b(lt)
               [] op = <<">", "=">> -> b(~lt)
               [] op = <<"<", "=">> -> b(lt \/ eq)
               [] op = <<"=", "=">> -> b(eq)
               [] op = <<"!", "=">> -> b(~eq)
               [] OTHER -> "F"
        ELSE CASE op = <<"=", "=">> -> "F"
               [] op = <<"!", "=">> -> "T"
               [] op \in Range(RangeOps) -> "E"
               [] OTHER -> "F"

\* ------------------------------------------------------ the two regexes
RECURSIVE WordPrefixLen(_)
WordPrefixLen(s) ==
    IF s # <<>> /\ Head(s) \in WordChars THEN 1 + WordPrefixLen(Tail(s))
    ELSE 0

\* the first position at or after p that holds no space
RECURSIVE SkipSpaces(_, _)
SkipSpaces(s, p) ==
    IF p <= Len(s) /\ IsSpace(s[p]) THEN SkipSpaces(s, p + 1) ELSE p

StartsWith(s, p, op) ==
    /\ p + Len(op) - 1 <= Len(s)
    /\ SubSeq(s, p, p + Len(op) - 1) = op

Min(S) == CHOOSE x \in S : \A y \in S : x <= y

NoMatch == [ok |-> FALSE, field |-> <<>>, operator |-> <<>>, value |-> <<>>]

\* re.match(r'(\w+)\s*(>=|<=|!=|==|>|<)\s*(.+)', expression.strip()):
\* the longest word prefix, spaces, the first alternative of the operator
\* group that leaves at least one character for (.+), spaces, the rest.
range_match(expression) ==
    LET e == Strip(expression)
        w == WordPrefixLen(e)
        p == SkipSpaces(e, w + 1)
        alts == {i \in DOMAIN RangeOps :
                    /\ StartsWith(e, p, RangeOps[i])
                    /\ p + Len(RangeOps[i]) <= Len(e)}
    IN  IF w = 0 \/ alts = {} THEN NoMatch
        ELSE LET op == RangeOps[Min(alts)] IN
             [ok |-> TRUE, field |-> SubSeq(e, 1, w), operator |-> op,
              value |-> SubSeq(e, SkipSpaces(e, p + Len(op)), Len(e))]

\* the operator at position p, as the alternation finds it, or <<>>
OpAt(e, p) ==
    LET alts == {i \in DOMAIN RangeOps : StartsWith(e, p, RangeOps[i])}
    IN  IF alts = {} THEN <<>> ELSE RangeOps[Min(alts)]

\* re.split(r'\s*(>=|<=|!=|==|>|<)\s*', expression): the positions of the
\* operators found, left to right
RECURSIVE split_ops(_, _)
split_ops(e, p) ==
    IF p > Len(e) THEN <<>>
    ELSE IF OpAt(e, p) = <<>> THEN split_ops(e, p + 1)
    ELSE <<p>> \o split_ops(e, p + Len(OpAt(e, p)))


\* ---------------------------------------------------- rules and records
\* a rank that would put ERROR before CRITICAL
error_first_order(severity) ==
    CASE severity = "ERROR" -> 0 [] severity = "CRITICAL" -> 1
      [] severity = "WARNING" -> 2 [] OTHER -> 3

\* severity rank of get_rules_optimized (line 24)
priority_order(severity) ==
    CASE severity = "CRITICAL" -> 0 [] severity = "ERROR" -> 1
      [] severity = "WARNING" -> 2 [] OTHER -> 3

Severities == {"CRITICAL", "ERROR", "WARNING", "INFO"}

\* The rule expressions explored, as stored in the rules table:
\*   q>5      a RANGE expression of the grammar <field> <op> <literal>
\*   q >> 5   the malformed operator of the specification's scenario C
\*   q>       an operator with no literal
ExprGt5 == <<"q", ">", "5">>
ExprShift == <<"q", " ", ">", ">", " ", "5">>
ExprNoLiteral == <<"q", ">">>
\* what stands for rule_expression in an item that has no such attribute
NoExpression == <<"no rule_expression">>

\* A rule item of the validation-rules table (ValidationRules.create_rule).
\* has_name = FALSE is an item written without its rule_name attribute.
Rule(id, vt, ex, sev, named) ==
    [rule_id |-> id, validation_type |-> vt, rule_expression |-> ex,
     severity |-> sev, has_name |-> named]

\* The rules explored, as <<validation_type, rule_expression, has_name>>
\* with a severity: the well-formed RANGE rule at every severity, the
\* malformed one and the one without a name at the two highest, the
\* uncompiled ones and the one without an expression at ERROR.
RuleKinds ==
    ({<<"RANGE", ExprGt5, TRUE>>} \X Severities)
    \cup ({<<"RANGE", ExprShift, TRUE>>, <<"RANGE", ExprGt5, FALSE>>}
             \X {"CRITICAL", "ERROR"})
    \cup ({<<"RANGE", ExprNoLiteral, TRUE>>, <<"EXPRESSION", ExprGt5, TRUE>>,
            <<"RANGE", NoExpression, TRUE>>}
             \X {"ERROR"})

\* the rule lists a category may hold; rule_id is the position in the table
RuleSets ==
    {[i \in DOMAIN f |-> Rule(i, f[i][1][1], f[i][1][2], f[i][2], f[i][1][3])] :
        f \in SeqsUpTo(RuleKinds, MaxRules)}

RuleIds == 1..MaxRules

RuleCategories == {"SALES"}

\* A record: the one field the rules refer to, absent (None for data.get),
\* an int, a numeric string or a non-numeric string.
DataSet ==
    {[q |-> v] : v \in {VNone, VInt(3), VStr(<<"1", "0">>), VStr(<<"b">>)}}

\* data.get(field)
data_get(data, field) == IF field = <<"q">> THEN data.q ELSE VNone

\* ------------------------------------------------------------ compiling
NotCompiled == [type |-> "none", field |-> <<>>, operator |-> <<>>,
                value |-> VNone]

\* line 78: rule['rule_expression'] raises KeyError
CompileRaised == [type |-> "raise", field |-> <<>>, operator |-> <<>>,
                  value |-> VNone]

\* _precompile_rule_expression: the entry it stores under rule_id,
\* NotCompiled when it stores none (a RANGE expression that does not match),
\* CompileRaised when it raises
precompile_rule_expression(rule) ==
    IF rule.rule_expression = NoExpression THEN CompileRaised
    ELSE IF rule.validation_type = "RANGE"
    THEN LET m == range_match(rule.rule_expression) IN
         IF m.ok
         THEN [type |-> "range", field |-> Strip(m.field),
               operator |-> m.operator,
               value |-> convert_to_numeric(VStr(Strip(m.value)))]
         ELSE NotCompiled
    ELSE [type |-> "expression", field |-> <<>>, operator |-> <<>>,
          value |-> VNone]

\* ----------------------------------------------------------- evaluating
\* the comparison as it would run without the None check of lines 116-117
compare_without_none_check(compiled_rule, data) ==
    py_compare(compiled_rule.operator,
               convert_to_numeric(data_get(data, compiled_rule.field)),
               compiled_rule.value)

\* _execute_compiled_range_rule: "T", "F", or "E" when the comparison raises
execute_compiled_range_rule(compiled_rule, data) ==
    LET field_value == data_get(data, compiled_rule.field) IN
    IF field_value = VNone THEN "F"
    ELSE py_compare(compiled_rule.operator, convert_to_numeric(field_value),
                    compiled_rule.value)

\* _evaluate_range_rule: every exception is caught inside (lines 194-197)
evaluate_range_rule(expression, data) ==
    LET e == Strip(expression)
        ops == split_ops(e, 1)
    IN  IF Len(ops) # 1 THEN "F"
        ELSE LET p == ops[1]
                 operator == OpAt(e, p)
                 field == Strip(SubSeq(e, 1, p - 1))
                 value == Strip(SubSeq(e, p + Len(operator), Len(e)))
                 field_value == data_get(data, field)
                 r == py_compare(operator, convert_to_numeric(field_value),
                                 convert_to_numeric(VStr(value)))
             IN  IF field_value = VNone THEN "F"
                 ELSE IF r = "E" THEN "F" ELSE r

\* eval(expression, {"__builtins__": ...}, context) of
\* _evaluate_comparison_rule and _evaluate_expression_rule, for the
\* expressions <name> <comparison> <integer literal>; the context holds the
\* record's fields after _convert_to_numeric (_create_safe_context).  A
\* name that is no field (NameError), a TypeError and a SyntaxError are
\* caught inside and give False.
evaluate_expression_rule(expression, data) ==
    LET m == range_match(expression)
        r == py_compare(m.operator,
                        convert_to_numeric(data_get(data, m.field)),
                        VInt(ParseInt(m.value)))
    IN  IF ~m.ok \/ ~IsInt(m.value) \/ m.field[1] \in Digits THEN "F"
        ELSE IF data_get(data, m.field) = VNone THEN "F"
        ELSE IF r = "E" THEN "F" ELSE r

\* _evaluate_rule
evaluate_rule(rule, data) ==
    IF rule.validation_type = "RANGE"
    THEN evaluate_range_rule(rule.rule_expression, data)
    ELSE evaluate_expression_rule(rule.rule_expression, data)

\* _execute_compiled_rule
execute_compiled_rule(rule, compiled_rule, data) ==
    IF compiled_rule.type = "range"
    THEN execute_compiled_range_rule(compiled_rule, data)
    ELSE evaluate_rule(rule, data)

\* execute_rules lines 55-71, given what the evaluation of the rule gave:
\* "FIRE" when a violation is appended, "NOFIRE" when none is, "FAULT" when
\* an exception reaches the handler of line 70 (nothing is appended, the
\* loop goes on)
violation_outcome(rule, violation) ==
    IF violation = "E" THEN "FAULT"
    ELSE IF violation = "F" THEN "NOFIRE"
    \* line 58: rule['rule_name'] raises KeyError
    ELSE IF ~rule.has_name THEN "FAULT"
    ELSE "FIRE"

\* execute_rules lines 49-71, the body of the loop for one rule
rule_outcome(rule, compiled, data) ==
    violation_outcome(rule,
        IF compiled[rule.rule_id].type # "none"
        THEN execute_compiled_rule(rule, compiled[rule.rule_id], data)
        ELSE evaluate_rule(rule, data))

\* the violation_detail of lines 56-63
violation_detail(rule) ==
    [rule_id |-> rule.rule_id, severity |-> rule.severity,
     validation_type |-> rule.validation_type]

\* what execute_rules has when no rule is left
NoMore == [violations |-> <<>>, log |-> <<>>]

\* one rule's outcome o put before what the rest of the loop gave
loop_result(rule, o, rest) ==
    [violations |-> (IF o = "FIRE" THEN <<violation_detail(rule)>>
                     ELSE <<>>) \o rest.violations,
     log |-> <<[rule_id |-> rule.rule_id, outcome |-> o]>> \o rest.log]

\* the loop as it would run if a fault in one rule ended the evaluation
RECURSIVE abort_on_fault_loop(_, _, _, _)
RECURSIVE abort_on_fault_body(_, _, _, _, _)
abort_on_fault_body(o, rules, compiled, data, fast_fail) ==
    loop_result(Head(rules), o,
        IF o = "FAULT"
           \/ (o = "FIRE" /\ fast_fail /\ Head(rules).severity = "CRITICAL")
        THEN NoMore
        ELSE abort_on_fault_loop(Tail(rules), compiled, data, fast_fail))

abort_on_fault_loop(rules, compiled, data, fast_fail) ==
    IF rules = <<>> THEN NoMore
    ELSE abort_on_fault_body(rule_outcome(Head(rules), compiled, data),
                             rules, compiled, data, fast_fail)

\* execute_rules lines 46-73: the loop over the sorted rules.  It returns
\* the violations and the rules attempted, in order, each with its outcome.
RECURSIVE execute_loop(_, _, _, _)
RECURSIVE loop_body(_, _, _, _, _)
\* lines 55-68 for the first of `rules`, whose outcome is o: the break of
\* line 68, or the rest of the loop
loop_body(o, rules, compiled, data, fast_fail) ==
    loop_result(Head(rules), o,
        IF o = "FIRE" /\ fast_fail /\ Head(rules).severity = "CRITICAL"
        THEN NoMore
        ELSE execute_loop(Tail(rules), compiled, data, fast_fail))

execute_loop(rules, compiled, data, fast_fail) ==
    IF rules = <<>> THEN NoMore
    ELSE loop_body(rule_outcome(Head(rules), compiled, data),
                   rules, compiled, data, fast_fail)

\* the rules in table order, as they would run without the sort
table_order_rules(rules) == rules

\* sorted(rules, key=priority_order ...): a stable sort by severity rank
sorted_rules(rules) ==
    SelectSeq(rules, LAMBDA r : priority_order(r.severity) = 0)
    \o SelectSeq(rules, LAMBDA r : priority_order(r.severity) = 1)
    \o SelectSeq(rules, LAMBDA r : priority_order(r.severity) = 2)
    \o SelectSeq(rules, LAMBDA r : priority_order(r.severity) = 3)

\* get_rules_optimized lines 29-31 for one rule, c being what
\* _precompile_rule_expression stores for it
compile_one(compiled, rule_id, c) ==
    IF compiled[rule_id].type = "none" /\ c.type # "none"
    THEN [compiled EXCEPT ![rule_id] = c]
    ELSE compiled

\* get_rules_optimized lines 28-31: compile the rules not yet compiled, up
\* to the first one whose compilation raises
RECURSIVE compile_all(_, _)
RECURSIVE compile_rest(_, _, _)
\* c is what _precompile_rule_expression gives for the first of `rules`
compile_rest(rules, compiled, c) ==
    IF compiled[Head(rules).rule_id].type = "none" /\ c.type = "raise"
    THEN compiled
    ELSE compile_all(Tail(rules), compile_one(compiled, Head(rules).rule_id, c))

compile_all(rules, compiled) ==
    IF rules = <<>> THEN compiled
    ELSE compile_rest(rules, compiled, precompile_rule_expression(Head(rules)))

\* the loop of lines 28-31 raises: a rule not yet compiled has no expression
compile_raises(rules) ==
    \E i \in DOMAIN rules :
        precompile_rule_expression(rules[i]).type = "raise"

\* ------------------------------------------- the validator as it runs
Miss == [hit |-> FALSE, rules |-> <<>>]
Hit(rules) == [hit |-> TRUE, rules |-> rules]

\* fast_fail is _fast_fail_enabled as the call found it
ExecIdle == [pc |-> "idle", report_type |-> "", fast_fail |-> TRUE,
             violations |-> <<>>, log |-> <<>>, raised |-> FALSE]

\* set_fast_fail
SetFastFail ==
    /\ \E enabled \in BOOLEAN : fast_fail_enabled' = enabled
    /\ UNCHANGED <<processing, call, redshift, threads, batchVars, pool, reports, rule_store, rules_cache,
                   compiled_expressions, optimized_cache, exec>>

\* clear_cache: only _rules_cache is cleared
ClearCache ==
    /\ rules_cache' = [t \in RuleCategories |-> Miss]
    /\ UNCHANGED <<processing, call, redshift, threads, batchVars, pool, reports, rule_store,
                   compiled_expressions, optimized_cache, fast_fail_enabled,
                   exec>>

\* get_rules: the cached list, or the list the rules table returns.
\* db_fault: the query of the table fails; DynamoDBService.query catches
\* the exception and returns the empty list, which is cached like any other.
get_rules(report_type, db_fault) ==
    IF rules_cache[report_type].hit THEN rules_cache[report_type].rules
    ELSE IF db_fault THEN <<>>
    ELSE rule_store[report_type]

\* get_rules_optimized on a miss of its lru_cache, `rules` being what
\* get_rules returned and `sorted` the list of line 26.  When the loop of
\* lines 28-31 raises, the lru_cache stores nothing; _rules_cache and the
\* entries compiled before the raise stay.
StoreOptimized(report_type, rules, sorted) ==
    /\ rules_cache' = [rules_cache EXCEPT ![report_type] = Hit(rules)]
    /\ optimized_cache' =
           IF compile_raises(sorted) THEN optimized_cache
           ELSE [optimized_cache EXCEPT ![report_type] = Hit(sorted)]
    /\ compiled_expressions' = compile_all(sorted, compiled_expressions)

SortAndStore(report_type, rules) ==
    StoreOptimized(report_type, rules, sorted_rules(rules))

\* get_rules_optimized
GetRulesOptimized(report_type, db_fault) ==
    IF optimized_cache[report_type].hit
    THEN UNCHANGED <<rules_cache, compiled_expressions, optimized_cache>>
    ELSE SortAndStore(report_type, get_rules(report_type, db_fault))

\* execute_rules returns r.violations
ReturnViolations(report_type, r) ==
    exec' = [ExecIdle EXCEPT !.pc = "done", !.report_type = report_type,
                !.fast_fail = fast_fail_enabled,
                !.violations = r.violations, !.log = r.log]

\* execute_rules raises what get_rules_optimized raised at line 43
RaiseFromRules(report_type) ==
    exec' = [ExecIdle EXCEPT !.pc = "done", !.report_type = report_type,
                !.fast_fail = fast_fail_enabled, !.raised = TRUE]

\* whether the query of the rules table can fail in this call: it is made
\* only on a miss of both caches
DbFaults(report_type) ==
    IF optimized_cache[report_type].hit \/ rules_cache[report_type].hit
    THEN {FALSE} ELSE BOOLEAN

\* execute_rules(report_type, data), with get_rules_optimized and get_rules
execute_rules(report_type, data, db_fault) ==
    /\ GetRulesOptimized(report_type, db_fault)
    /\ IF optimized_cache'[report_type].hit
       THEN ReturnViolations(report_type,
                execute_loop(optimized_cache'[report_type].rules,
                             compiled_expressions', data, fast_fail_enabled))
       ELSE RaiseFromRules(report_type)

ExecuteRules ==
    /\ \E report_type \in RuleCategories, data \in DataSet :
       \E db_fault \in DbFaults(report_type) :
           execute_rules(report_type, data, db_fault)
    /\ UNCHANGED <<processing, call, redshift, threads, batchVars, pool, reports, rule_store,
                   fast_fail_enabled>>

\* ---------------------------------------- the rules of another category
\* The loop of lines 28-31 raises on `rules` when the validator holds
\* `compiled`: a rule without an expression has no entry under its rule_id.
compile_raises_with(rules, compiled) ==
    \E i \in DOMAIN rules :
        /\ compiled[rules[i].rule_id].type = "none"
        /\ precompile_rule_expression(rules[i]).type = "raise"

\* what execute_rules does for a category on its first call, the list
\* read from its table being `sorted` once sorted: it raises, or runs the
\* loop of lines 46-73 with the entries of _compiled_expressions
first_call(sorted, compiled, data, fast_fail) ==
    IF compile_raises_with(sorted, compiled)
    THEN [raised |-> TRUE, violations |-> <<>>, log |-> <<>>]
    ELSE [raised |-> FALSE,
          violations |-> execute_loop(sorted, compile_all(sorted, compiled),
                                      data, fast_fail).violations,
          log |-> execute_loop(sorted, compile_all(sorted, compiled),
                               data, fast_fail).log]

other_category_call(rules, data, db_fault, r) ==
    [op |-> "other_category", rules |-> rules, data |-> data,
     db_fault |-> db_fault, raised |-> r.raised,
     violations |-> r.violations, log |-> r.log]

\* execute_rules(report_type, data) on the same validator for a category
\* that is not one of RuleCategories, whose table holds `rules` and for
\* which nothing is cached: rule_id is the position in the category's own
\* table, _compiled_expressions is one dict for all categories
ExecuteOtherCategory ==
    /\ call = CallIdle
    /\ \E rules \in RuleSets, data \in DataSet, db_fault \in BOOLEAN :
          LET sorted == sorted_rules(IF db_fault THEN <<>> ELSE rules) IN
          /\ compiled_expressions' = compile_all(sorted, compiled_expressions)
          /\ call' = other_category_call(rules, data, db_fault,
                         first_call(sorted, compiled_expressions, data,
                                    fast_fail_enabled))
    /\ UNCHANGED <<processing, redshift, threads, batchVars, pool, reports, rule_store,
                   rules_cache, optimized_cache, fast_fail_enabled, exec>>

\* ------------------------------------- execute_rules on several threads
\* Two threads call execute_rules on the same validator.  Each statement
\* that reads or writes an attribute of the validator is one step.
Threads == {1, 2}

\* A thread in execute_rules: where it is, the record it validates, its
\* local `rules` (get_rules_optimized) or `sorted_rules`, the position of
\* its loop, what it collected; queried: it read the table; stored: the
\* rule_ids it compiled; faulted: its read of the table failed.
ThreadIdle == [pc |-> "idle", data |-> [q |-> VNone], rules |-> <<>>,
               k |-> 1, violations |-> <<>>, log |-> <<>>,
               queried |-> FALSE, stored |-> {}, faulted |-> FALSE]

\* the threads' rule, when the loop of thread th is at one
ThreadRule(th) == th.rules[th.k]

\* both threads are called, each with its record, for the same category
ThreadsCall ==
    /\ \A i \in Threads : threads[i].pc = "idle"
    /\ \E data \in [Threads -> DataSet] :
          threads' = [i \in Threads |->
                         [ThreadIdle EXCEPT !.pc = "lookup", !.data = data[i]]]
    /\ UNCHANGED <<processing, call, redshift, batchVars, ruleVars, pool, reports>>

\* line 43: the lru_cache of get_rules_optimized is looked up
ThreadLookup(i, report_type) ==
    /\ threads[i].pc = "lookup"
    /\ threads' = [threads EXCEPT ![i] =
          IF optimized_cache[report_type].hit
          THEN [@ EXCEPT !.pc = "loop",
                         !.rules = optimized_cache[report_type].rules]
          ELSE [@ EXCEPT !.pc = "get_rules"]]
    /\ UNCHANGED <<processing, call, redshift, batchVars, ruleVars, pool, reports>>

\* line 37: report_type not in self._rules_cache
ThreadGetRules(i, report_type) ==
    /\ threads[i].pc = "get_rules"
    /\ threads' = [threads EXCEPT ![i].pc =
          IF rules_cache[report_type].hit THEN "read" ELSE "query"]
    /\ UNCHANGED <<processing, call, redshift, batchVars, ruleVars, pool, reports>>

\* line 38: the table is read and the list put into _rules_cache
ThreadQuery(i, report_type) ==
    /\ threads[i].pc = "query"
    /\ \E db_fault \in BOOLEAN :
          /\ rules_cache' = [rules_cache EXCEPT ![report_type] =
                Hit(IF db_fault THEN <<>> ELSE rule_store[report_type])]
          /\ threads' = [threads EXCEPT ![i].pc = "read",
                                        ![i].queried = TRUE,
                                        ![i].faulted = db_fault]
    /\ UNCHANGED <<processing, call, redshift, batchVars, pool, reports, rule_store,
                   compiled_expressions, optimized_cache, fast_fail_enabled,
                   exec>>

\* line 39 returns self._rules_cache[report_type]; lines 24-26 sort it
ThreadRead(i, report_type) ==
    /\ threads[i].pc = "read"
    /\ threads' = [threads EXCEPT ![i].pc = "compile_check",
          ![i].rules = sorted_rules(rules_cache[report_type].rules)]
    /\ UNCHANGED <<processing, call, redshift, batchVars, ruleVars, pool, reports>>

\* an lru_cache that would hold the sorted list as soon as it is sorted,
\* before the rules are compiled
lru_put_before_compile(cache, report_type, th) ==
    [cache EXCEPT ![report_type] = Hit(th.rules)]

\* the lru_cache stores what get_rules_optimized returns (line 33), when
\* the loop of lines 28-31 is over
lru_put(cache, report_type, th) ==
    IF th.k > Len(th.rules) THEN [cache EXCEPT ![report_type] = Hit(th.rules)]
    ELSE cache

\* line 30 for the rule the loop is at, or the end of the loop and line 33
compile_check(th, compiled) ==
    IF th.k > Len(th.rules) THEN [th EXCEPT !.pc = "loop", !.k = 1]
    ELSE IF compiled[ThreadRule(th).rule_id].type # "none"
    THEN [th EXCEPT !.k = @ + 1]
    ELSE [th EXCEPT !.pc = "compile_store"]

ThreadCompileCheck(i, report_type) ==
    /\ threads[i].pc = "compile_check"
    /\ threads' = [threads EXCEPT
                      ![i] = compile_check(@, compiled_expressions)]
    /\ optimized_cache' = lru_put(optimized_cache, report_type, threads[i])
    /\ UNCHANGED <<processing, call, redshift, batchVars, pool, reports, rule_store,
                   rules_cache, compiled_expressions, fast_fail_enabled,
                   exec>>

\* line 31, c being what _precompile_rule_expression builds: the entry is
\* assigned whole (lines 85 and 93), whatever the other thread stored
\* since line 30; a raise leaves get_rules_optimized and execute_rules
compile_store(th, c) ==
    IF c.type = "raise" THEN [th EXCEPT !.pc = "raised"]
    ELSE [th EXCEPT !.pc = "compile_check", !.k = @ + 1,
                    !.stored = IF c.type = "none" THEN @
                               ELSE @ \cup {ThreadRule(th).rule_id}]

ThreadCompileStore(i, c) ==
    /\ threads[i].pc = "compile_store"
    /\ threads' = [threads EXCEPT ![i] = compile_store(@, c)]
    /\ compiled_expressions' =
          IF c.type \in {"none", "raise"} THEN compiled_expressions
          ELSE [compiled_expressions EXCEPT
                   ![ThreadRule(threads[i]).rule_id] = c]
    /\ UNCHANGED <<processing, call, redshift, batchVars, pool, reports, rule_store,
                   rules_cache, optimized_cache, fast_fail_enabled, exec>>

ThreadCompile(i) ==
    /\ threads[i].pc = "compile_store"
    /\ ThreadCompileStore(i, precompile_rule_expression(ThreadRule(threads[i])))

\* lines 46-73 for the rule the loop is at, o being its outcome
thread_loop(th, o, fast_fail) ==
    [th EXCEPT
        !.violations = IF o = "FIRE"
                       THEN Append(@, violation_detail(ThreadRule(th)))
                       ELSE @,
        !.log = Append(@, [rule_id |-> ThreadRule(th).rule_id, outcome |-> o]),
        !.k = @ + 1,
        !.pc = IF \/ th.k = Len(th.rules)
                  \/ /\ o = "FIRE" /\ fast_fail
                     /\ ThreadRule(th).severity = "CRITICAL"
               THEN "done" ELSE "loop"]

ThreadLoop(i) ==
    /\ threads[i].pc = "loop"
    /\ threads' = [threads EXCEPT ![i] =
          IF @.rules = <<>> THEN [@ EXCEPT !.pc = "done"]
          ELSE thread_loop(@, rule_outcome(ThreadRule(@), compiled_expressions,
                                           @.data), fast_fail_enabled)]
    /\ UNCHANGED <<processing, call, redshift, batchVars, ruleVars, pool, reports>>

\* one thread takes its next step
ThreadStep ==
    \E i \in Threads, report_type \in RuleCategories :
        \/ ThreadLookup(i, report_type)
        \/ ThreadGetRules(i, report_type)
        \/ ThreadQuery(i, report_type)
        \/ ThreadRead(i, report_type)
        \/ ThreadCompileCheck(i, report_type)
        \/ ThreadCompile(i)
        \/ ThreadLoop(i)

\* ------------------------------------------------- the rules table changes
\* ValidationRules.update_rule(report_type, rule_id, ...): one attribute of
\* one rule of the table is set, its expression or its severity
UpdateRule ==
    /\ \E report_type \in RuleCategories :
       \E i \in DOMAIN rule_store[report_type] :
          \/ \E e \in {ExprGt5, ExprShift} :
                rule_store' = [rule_store EXCEPT
                                  ![report_type][i].rule_expression = e]
          \/ \E sev \in {"CRITICAL", "ERROR"} :
                rule_store' = [rule_store EXCEPT
                                  ![report_type][i].severity = sev]
    /\ UNCHANGED <<processing, call, redshift, threads, batchVars, pool, reports, rules_cache,
                   compiled_expressions, optimized_cache, fast_fail_enabled,
                   exec>>

\* execute_rules called for a record, the call being recorded with the
\* table as it stood and with whether _rules_cache held the category
executed_call(report_type, data, db_fault) ==
    [op |-> "execute_rules", report_type |-> report_type, data |-> data,
     db_fault |-> db_fault, rules |-> rule_store[report_type],
     cached |-> rules_cache[report_type].hit]

ExecuteRulesCall ==
    /\ \E report_type \in RuleCategories, data \in DataSet :
       \E db_fault \in DbFaults(report_type) :
           /\ execute_rules(report_type, data, db_fault)
           /\ call' = executed_call(report_type, data, db_fault)
    /\ UNCHANGED <<processing, redshift, threads, batchVars, pool, reports, rule_store,
                   fast_fail_enabled>>

\* ------------------------------------------------- processors/base.py
\* What validator.validate(data) returns: a list of messages ("str"), as
\* BaseValidator.validate declares and every validator under validators/
\* returns, or a list of dicts, each given here by its severity.
ValidatorOutputs ==
    {<<>>, <<"str">>, <<"str", "str">>, <<"ERROR">>, <<"CRITICAL">>,
     <<"ERROR", "CRITICAL">>}

\* lines 43-44: a list whose first element is a string becomes a list of
\* dicts of severity ERROR; the severities of the resulting field_errors
to_field_errors(out) ==
    IF out # <<>> /\ out[1] = "str" THEN [i \in DOMAIN out |-> "ERROR"]
    ELSE out

\* line 47, negated: some field error has severity CRITICAL
skip_business_rules(field_errors) ==
    \E i \in DOMAIN field_errors : field_errors[i] = "CRITICAL"

\* what validate_with_business_rules gave: the dict of lines 50-54, or
\* raised = TRUE when the exception of execute_rules left it (no handler
\* encloses line 48) and no dict was returned.  invoked: line 48 was run.
Verdict(field_errors, invoked, business_violations, raised) ==
    [op |-> "validate", field_errors |-> field_errors, invoked |-> invoked,
     business_violations |-> business_violations, raised |-> raised,
     is_valid |-> ~raised /\ field_errors = <<>>
                  /\ business_violations = <<>>]

\* lines 46-54, field_errors being the list after lines 43-44
ValidateRecord(report_type, data, field_errors) ==
    IF skip_business_rules(field_errors)
    THEN /\ call' = Verdict(field_errors, FALSE, <<>>, FALSE)
         /\ UNCHANGED <<rules_cache, compiled_expressions, optimized_cache,
                        exec>>
    ELSE \E db_fault \in DbFaults(report_type) :
            /\ execute_rules(report_type, data, db_fault)
            /\ call' = Verdict(field_errors, TRUE, exec'.violations,
                               exec'.raised)

\* validate_with_business_rules(report_type, data)
Validate ==
    /\ \E report_type \in RuleCategories, data \in DataSet,
          out \in ValidatorOutputs :
          ValidateRecord(report_type, data, to_field_errors(out))
    /\ UNCHANGED <<processing, redshift, threads, batchVars, pool, reports, rule_store,
                   fast_fail_enabled>>

\* ------------------------------------- the range evaluators called alone
\* The RANGE expressions given to the two evaluators: <field><op><literal>
\* for a field the records may hold (q) and one they never hold (a), every
\* operator, a numeric and a non-numeric literal, with and without spaces;
\* and three expressions outside the grammar.
RangeExpressions ==
    {f \o sp \o RangeOps[i] \o sp \o v :
        f \in {<<"q">>, <<"a">>}, sp \in {<<>>, <<" ">>},
        i \in DOMAIN RangeOps, v \in {<<"5">>, <<"b">>}}
    \cup {ExprShift, ExprNoLiteral, <<">", "5">>}

\* _execute_compiled_rule for a rule whose compiled entry is c, and
\* _evaluate_range_rule for the same expression: what each returns ("E"
\* when it raises, "-" when no entry of type range was compiled)
range_call(expression, data, c) ==
    [op |-> "range", expression |-> expression, data |-> data,
     compiled |-> c,
     compiled_result |-> IF c.type = "range"
                         THEN execute_compiled_range_rule(c, data) ELSE "-",
     fallback_result |-> evaluate_range_rule(expression, data)]

\* one RANGE rule compiled, then evaluated on one record by both evaluators
EvaluateRange ==
    /\ \E expression \in RangeExpressions, data \in DataSet :
          call' = range_call(expression, data,
                      precompile_rule_expression(
                          Rule(1, "RANGE", expression, "ERROR", TRUE)))
    /\ UNCHANGED <<processing, redshift, threads, batchVars, ruleVars, pool, reports>>

\* ------------------------------------- the names a rule text can resolve
\* The field names a record may have: two plain ones, and names that meet
\* the names _create_safe_context and the evaluators add.
FieldNames == {"q", "a", "date", "datetime", "abs", "sum", "str"}

\* a namespace: what each name it holds is bound to
Bind(names, kind) == [n \in names |-> kind]

\* dict.update(more): the items of `more` replace those of the same name
dict_update(namespace, more) == more @@ namespace

\* _create_safe_context: every field of the record (lines 277-298), then
\* the datetime class under 'datetime' unless a field has that name, and
\* the date class under 'date_class' unless a field is named 'date'
\* (lines 300-303)
create_safe_context(fields) ==
    Bind(fields, "field")
    @@ (IF "datetime" \notin fields THEN Bind({"datetime"}, "class")
        ELSE Bind({}, "class"))
    @@ (IF "date" \notin fields THEN Bind({"date_class"}, "class")
        ELSE Bind({}, "class"))

\* eval(expression, globals, locals): a name is looked up in locals, then
\* in globals, then in globals['__builtins__']
eval_scope(locals, builtins) ==
    locals @@ Bind({"__builtins__"}, "dict") @@ builtins

\* _evaluate_comparison_rule, lines 234-245
comparison_scope(fields) ==
    eval_scope(create_safe_context(fields),
               Bind({"abs", "min", "max", "round", "len", "sum"}, "function"))

\* _evaluate_expression_rule, lines 253-266
expression_scope(fields) ==
    eval_scope(dict_update(create_safe_context(fields),
                   Bind({"abs", "len", "min", "max", "round"}, "function")
                   @@ Bind({"str", "int", "float"}, "type")),
               Bind({}, "function"))

\* the two evaluators given a record with these fields
scope_call(fields) ==
    [op |-> "scope", fields |-> fields,
     comparison |-> comparison_scope(fields),
     expression |-> expression_scope(fields)]

\* one record; the namespaces are built anew for every evaluation
EvaluateScopes ==
    /\ call = CallIdle
    /\ \E fields \in SUBSET FieldNames : call' = scope_call(fields)
    /\ UNCHANGED <<processing, redshift, threads, batchVars, ruleVars, pool, reports>>

\* ========================================= services/aws/redshift_service.py

\* ThreadedConnectionPool(minconn=1, maxconn=5): getconn raises beyond it
maxconn == 5

\* RedshiftService.__init__: no pool yet; nothing was called
RedshiftIdle == [connection_pool |-> FALSE, used |-> 0, pc |-> "idle",
                 op |-> "none", history |-> <<>>]

Operations ==
    {"execute_copy_command", "execute_manifest_copy", "execute_query"}

\* _get_connection_pool: the pool is created on first use; a fault while
\* creating it is logged and raised again, and no pool is kept
get_connection_pool(rs, pool_fault) ==
    IF rs.connection_pool THEN rs
    ELSE IF pool_fault THEN [rs EXCEPT !.pc = "except"]
    ELSE [rs EXCEPT !.connection_pool = TRUE]

\* pool.getconn(): one more connection checked out, unless it raises
getconn(rs, conn_fault) ==
    IF rs.pc = "except" THEN rs
    ELSE IF conn_fault \/ rs.used >= maxconn THEN [rs EXCEPT !.pc = "except"]
    ELSE [rs EXCEPT !.used = @ + 1, !.pc = "with"]

\* get_connection up to its yield (lines 76-79)
get_connection_enter(rs, pool_fault, conn_fault) ==
    getconn(get_connection_pool(rs, pool_fault), conn_fault)

\* get_connection as it would be with putconn after the yield and no
\* finally: the connection goes back only when the block ends normally
putconn_on_return_only(rs, raised) ==
    IF raised THEN rs ELSE [rs EXCEPT !.used = @ - 1]

\* get_connection after its yield (lines 80-81): putconn in the finally
\* clause, whether the block ended normally or by an exception.  putconn
\* of a connection the open pool handed out takes it off the pool's list
\* of connections in use.
get_connection_exit(rs, raised) == [rs EXCEPT !.used = @ - 1]

\* What an operation gives when it ends.  execute_query logs and raises
\* again (line 228); execute_manifest_copy returns FAILED (line 280);
\* execute_copy_command returns FAILED too, unless get_timestamp, read for
\* duration_ms at line 197, raises inside the handler.
outcome(op, raised, handler_fault) ==
    IF ~raised THEN "RETURN"
    ELSE IF op = "execute_query" THEN "RAISE"
    ELSE IF op = "execute_manifest_copy" THEN "FAILED"
    ELSE IF handler_fault THEN "RAISE" ELSE "FAILED"

\* the operation is over: it is recorded with what it gave
finish(rs, acquired, raised, handler_fault) ==
    [rs EXCEPT !.pc = "idle", !.op = "none",
               !.history = Append(@, [op |-> rs.op, acquired |-> acquired,
                                      outcome |-> outcome(rs.op, raised,
                                                          handler_fault)])]

\* an operation starts: `with self.get_connection() as conn`, inside the
\* try block of the operation
enter_with(rs, handler_fault) ==
    IF rs.pc = "except" THEN finish(rs, FALSE, TRUE, handler_fault) ELSE rs

\* execute_query (line 204) and execute_manifest_copy (line 234)
operation_enter(rs, op, pool_fault, conn_fault) ==
    enter_with(get_connection_enter([rs EXCEPT !.op = op], pool_fault,
                                    conn_fault), FALSE)

\* execute_copy_command: get_timestamp is read at line 86, before the try
\* block, and then the connection is taken as the other two operations
\* take it.  The lines that take it are not in the file (the body, lines
\* 96-182, is indented for a `try:` and a `with self.get_connection() as
\* conn:` that precede it).
execute_copy_command_enter(rs, ts_fault, pool_fault, conn_fault, handler_fault) ==
    IF ts_fault
    THEN [rs EXCEPT !.history =
             Append(@, [op |-> "execute_copy_command", acquired |-> FALSE,
                        outcome |-> "RAISE"])]
    ELSE enter_with(get_connection_enter(
                        [rs EXCEPT !.op = "execute_copy_command"],
                        pool_fault, conn_fault), handler_fault)

\* An operation is called on the service.
RsEnter ==
    /\ redshift.pc = "idle"
    /\ Len(redshift.history) < MaxCalls
    /\ \E pool_fault \in BOOLEAN, conn_fault \in BOOLEAN :
          \/ \E op \in {"execute_manifest_copy", "execute_query"} :
                redshift' = operation_enter(redshift, op, pool_fault,
                                            conn_fault)
          \/ \E ts_fault \in BOOLEAN, handler_fault \in BOOLEAN :
                redshift' = execute_copy_command_enter(redshift, ts_fault,
                                pool_fault, conn_fault, handler_fault)
    /\ UNCHANGED <<processing, call, threads, batchVars, ruleVars, pool, reports>>

\* The with block of the operation ends, normally or by an exception of
\* the cursor, and the operation returns or raises.
RsExit ==
    /\ redshift.pc = "with"
    /\ \E raised \in BOOLEAN, handler_fault \in BOOLEAN :
          redshift' = finish(get_connection_exit(redshift, raised), TRUE,
                             raised, handler_fault)
    /\ UNCHANGED <<processing, call, threads, batchVars, ruleVars, pool, reports>>

\* close_connection: closeall() and the pool forgotten; when closeall
\* raises, a warning is logged and the pool is kept
RsClose ==
    /\ redshift.pc = "idle"
    /\ redshift.connection_pool
    /\ \E close_fault \in BOOLEAN :
          redshift' = [redshift EXCEPT !.connection_pool = close_fault]
    /\ UNCHANGED <<processing, call, threads, batchVars, ruleVars, pool, reports>>

\* ================================== batch_copy_files and process_reports

\* RedshiftIntegration.copy_valid_data: the status it returns and the COPY
\* it issued.  A summary whose status is not SUCCESS reaches line 32, whose
\* InfoCode is not imported: the NameError is caught at line 68 like a fault
\* of execute_copy_command before its try block, and FAILED is returned.
copy_valid_data(s3_path, report_type, validation_summary, copy) ==
    IF validation_summary.status # "SUCCESS" THEN Outcome("FAILED", <<>>)
    ELSE IF copy = "RAISE" THEN Outcome("FAILED", <<>>)
    ELSE Outcome(copy, <<Event("copy_valid", report_type, <<s3_path>>,
                               <<>>, copy = "SUCCESS")>>)

\* what _log_data_quality_audit did: whether it ran, whether the audit
\* record was inserted, whether an exception left it
NotAudited == [attempted |-> FALSE, written |-> FALSE, raised |-> FALSE]

\* _log_data_quality_audit as it would be without its handler of line 113
audit_without_handler(fault) ==
    [attempted |-> TRUE, written |-> ~fault, raised |-> fault]

\* _log_data_quality_audit: the INSERT through execute_query, which raises
\* under `fault`.  After an INSERT that succeeded line 106 raises a
\* NameError (InfoCode is not imported).  Both are caught at line 113.
log_data_quality_audit(fault) ==
    [attempted |-> TRUE, written |-> ~fault, raised |-> FALSE]

\* copy_valid_data, lines 56-78: the audit follows a COPY of status SUCCESS,
\* and an exception leaving it would reach the handler of line 66
audited_result(s3_path, report_type, validation_summary, copy, out, audit) ==
    [op |-> "copy_valid_data", s3_path |-> s3_path,
     report_type |-> report_type, validation_summary |-> validation_summary,
     copy |-> copy, ev |-> out.ev, audit |-> audit,
     status |-> IF audit.raised THEN "FAILED" ELSE out.res,
     raised |-> FALSE]

\* copy_valid_data called directly, with the audit record it writes
copy_valid_data_call(s3_path, report_type, validation_summary, copy, out, fault) ==
    audited_result(s3_path, report_type, validation_summary, copy, out,
                   IF out.res = "SUCCESS" THEN log_data_quality_audit(fault)
                   ELSE NotAudited)

ValidationSummaries ==
    [status : SummaryStatuses, valid_rows : 0..MaxRecords]

\* one file handed to copy_valid_data
CopyValidData ==
    /\ \E s3_path \in 1..MaxFiles, report_type \in ReportTypes,
          validation_summary \in ValidationSummaries,
          copy \in {"SUCCESS", "FAILED", "RAISE"}, fault \in BOOLEAN :
          call' = copy_valid_data_call(s3_path, report_type,
                      validation_summary, copy,
                      copy_valid_data(s3_path, report_type,
                                      validation_summary, copy), fault)
    /\ UNCHANGED <<processing, redshift, threads, batchVars, ruleVars, pool, reports>>

\* BatchCopyManager.__init__: max_workers, 3 unless the caller passes less
max_workers == 3

\* The faults of one task: RedshiftIntegration() raises, the COPY fails,
\* close() raises.
TaskFaults == [init : BOOLEAN, close : BOOLEAN,
               copy : {"SUCCESS", "FAILED", "RAISE"}]

\* _copy_single_file: what the future holds when the task ends
copy_single_file(file_batch, f) ==
    IF f.init THEN Outcome("RAISE", <<>>)
    ELSE LET o == copy_valid_data(file_batch.s3_path, file_batch.report_type,
                                  file_batch.validation_summary, f.copy)
         IN  IF f.close THEN Outcome("RAISE", o.ev) ELSE o

PoolInputs ==
    {[i \in DOMAIN f |-> FileBatch(i, "SALES", f[i], 2)] :
        f \in SeqsUpTo(SummaryStatuses, MaxTasks)}

PoolIdle == [pc |-> "idle", max_workers |-> max_workers,
             file_batches |-> <<>>, future |-> <<>>, taken |-> {},
             results |-> <<>>]

FutureDone == {"SUCCESS", "FAILED", "RAISE"}

\* the loop body with a raise of future.result() not recorded
drop_raised_result(results, file_batch, out) ==
    IF out = "RAISE" THEN results
    ELSE Append(results, [s3_path |-> file_batch.s3_path, status |-> out])

\* batch_copy_files lines 44-73: the body of the as_completed loop
future_result(results, file_batch, out) ==
    Append(results, [s3_path |-> file_batch.s3_path,
                     status |-> IF out = "RAISE" THEN "FAILED" ELSE out])

\* batch_copy_files lines 37-41: every batch is submitted to the executor
PoolSubmit ==
    /\ pool.pc = "idle"
    /\ \E file_batches \in PoolInputs, w \in 1..max_workers :
          pool' = [PoolIdle EXCEPT !.pc = "running", !.max_workers = w,
                      !.file_batches = file_batches,
                      !.future = [i \in DOMAIN file_batches |-> "PENDING"]]
    /\ UNCHANGED <<processing, call, redshift, threads, batchVars, ruleVars, reports>>

\* the tasks a worker thread is executing, those that will never end
\* ("HUNG") included: their thread stays occupied
Running(p) == {i \in DOMAIN p.future : p.future[i] \in {"RUNNING", "HUNG"}}

\* an executor that would start a thread for every task submitted
unbounded_workers(p) == TRUE

\* ThreadPoolExecutor(max_workers=self.max_workers), line 37: a queued task
\* is taken only by one of the max_workers threads, when it is free
worker_free(p) == Cardinality(Running(p)) < p.max_workers

\* a free worker thread takes the oldest queued task
WorkerStart ==
    /\ pool.pc = "running"
    /\ worker_free(pool)
    /\ \E i \in DOMAIN pool.future :
          /\ pool.future[i] = "PENDING"
          /\ \A j \in 1..(i - 1) : pool.future[j] # "PENDING"
          /\ pool' = [pool EXCEPT !.future[i] = "RUNNING"]
    /\ UNCHANGED <<processing, call, redshift, threads, batchVars, ruleVars, reports>>

\* _copy_single_file ends on its worker thread
WorkerFinish ==
    /\ pool.pc = "running"
    /\ \E i \in DOMAIN pool.future, f \in TaskFaults :
          LET o == copy_single_file(pool.file_batches[i], f) IN
          /\ pool.future[i] = "RUNNING"
          /\ pool' = [pool EXCEPT !.future[i] = o.res]
          /\ io' = io \o o.ev
    /\ UNCHANGED <<processing, call, redshift, threads, batch, staging, ruleVars, reports>>

\* _copy_single_file never ends on its worker thread: the COPY blocks at
\* the store.  No call of lines 37-90 carries a time bound (submit,
\* as_completed and future.result() are given no timeout, no task is ever
\* cancelled), so the future stays unfinished for ever.
WorkerHang ==
    /\ pool.pc = "running"
    /\ \E i \in DOMAIN pool.future :
          /\ pool.future[i] = "RUNNING"
          /\ pool.file_batches[i].validation_summary.status = "SUCCESS"
          /\ pool' = [pool EXCEPT !.future[i] = "HUNG"]
    /\ UNCHANGED <<processing, call, redshift, threads, batchVars, ruleVars, reports>>

\* as_completed yields a finished future and the loop body runs
PoolCollect ==
    /\ pool.pc = "running"
    /\ \E i \in DOMAIN pool.future \ pool.taken :
          /\ pool.future[i] \in FutureDone
          /\ pool' = [pool EXCEPT
                        !.taken = @ \cup {i},
                        !.results = future_result(@, pool.file_batches[i],
                                                  pool.future[i])]
    /\ UNCHANGED <<processing, call, redshift, threads, batchVars, ruleVars, reports>>

\* line 75: every future was yielded, the executor shut down
PoolReturn ==
    /\ pool.pc = "running"
    /\ pool.taken = DOMAIN pool.future
    /\ pool' = [pool EXCEPT !.pc = "returned"]
    /\ UNCHANGED <<processing, call, redshift, threads, batchVars, ruleVars, reports>>

\* ---------------------------------------------------- processors/report.py
\* An uploaded file: its key, its report type and, for each row, whether
\* validate_with_business_rules finds it valid.
S3Record(key, t, rows) == [key |-> key, report_type |-> t, rows |-> rows]

\* the files explored: empty, all rows valid, all invalid, mixed
RowLists == {<<>>, <<TRUE>>, <<FALSE>>, <<TRUE, FALSE>>, <<FALSE, TRUE>>}

\* the category of a key in which ReportType.from_s3_key finds none of the
\* three s3_path prefixes
UnknownCategory == "UNKNOWN"

S3RecordInputs ==
    {[i \in DOMAIN f |-> S3Record(i, f[i][1], f[i][2])] :
        f \in SeqsUpTo((ReportTypes \X RowLists)
                          \cup {<<UnknownCategory, <<TRUE>>>>}, MaxRecords)}

\* ReportFactory.create_processor raises ValueError (from_s3_key, line 20)
create_processor_raises(record) == record.report_type = UnknownCategory

\* processor.process: the rows are counted one by one; a fault after
\* `stop` rows returns the counts so far with status FAILED
process(record, failed, stop) ==
    LET seen == IF failed THEN SubSeq(record.rows, 1, stop) ELSE record.rows
        valid == Cardinality({j \in DOMAIN seen : seen[j]})
    IN  [status |-> IF failed THEN "FAILED" ELSE "SUCCESS",
         total_rows |-> Len(seen), valid_rows |-> valid,
         invalid_rows |-> Len(seen) - valid]

FileProcessingResult(record, result) ==
    [report_type |-> record.report_type, file_location |-> record.key,
     status |-> result.status, total_rows |-> result.total_rows,
     valid_rows |-> result.valid_rows, invalid_rows |-> result.invalid_rows]

\* the result built when the loop body raised (lines 164-172)
failed_result(record) ==
    [report_type |-> record.report_type, file_location |-> record.key,
     status |-> "FAILED", total_rows |-> 0, valid_rows |-> 0,
     invalid_rows |-> 0]

\* The except branch of lines 155-173, entered with process_reports at
\* rep.  Its first statement calls self.logger.error, which ErrorLogger
\* does not define: when the call raises (log_raises), the exception leaves
\* the handler and process_reports; when it returns, failed_result is
\* appended and the loop goes on.
except_branch(rep, log_raises) ==
    IF log_raises THEN [rep EXCEPT !.pc = "raised"]
    ELSE [rep EXCEPT !.k = @ + 1,
             !.results = Append(@, failed_result(rep.s3_records[rep.k]))]

\* _execute_batch_copy lines 209-230: the file batches it prepares from
\* zip(s3_records, results).  A record of unknown category is left out
\* (the ValueError of from_s3_key is caught at line 225).
RECURSIVE prepare_file_batches(_, _)
prepare_file_batches(s3_records, results) ==
    IF s3_records = <<>> \/ results = <<>> THEN <<>>
    ELSE LET record == Head(s3_records)
             r == Head(results)
         IN  (IF r.valid_rows > 0 /\ record.report_type # UnknownCategory
              THEN <<FileBatch(record.key, record.report_type, "SUCCESS",
                               r.valid_rows)>>
              ELSE <<>>)
             \o prepare_file_batches(Tail(s3_records), Tail(results))

\* line 225 is reached: a record of unknown category is paired with a
\* result that has valid rows
warns_unknown(s3_records, results) ==
    \E i \in DOMAIN s3_records \cap DOMAIN results :
        /\ results[i].valid_rows > 0
        /\ s3_records[i].report_type = UnknownCategory

ReportsIdle == [pc |-> "idle", s3_records |-> <<>>, k |-> 1,
                results |-> <<>>]

\* process_reports is called
ReportsStart ==
    /\ reports.pc = "idle"
    /\ \E s3_records \in S3RecordInputs :
          reports' = [ReportsIdle EXCEPT !.pc = "loop",
                         !.s3_records = s3_records]
    /\ UNCHANGED <<processing, call, redshift, threads, batchVars, ruleVars, pool>>

\* lines 23-173: one iteration of the loop over the records.
\*   raised  create_processor or processor.process raises (lines 42-43)
\*   failed  process caught a fault after `stop` rows and returned FAILED
\*   f       the faults of the Redshift integration (caught at line 114)
\*   after   get_performance_metrics or cleanup raises (lines 144-153),
\*           after the result was appended at line 142
\*   log_raises  the logging call of the except branch raises
ReportsRecord ==
    /\ reports.pc = "loop"
    /\ reports.k <= Len(reports.s3_records)
    /\ LET record == reports.s3_records[reports.k] IN
       \E raised \in IF create_processor_raises(record) THEN {TRUE}
                      ELSE BOOLEAN,
          failed \in BOOLEAN, stop \in 0..Len(record.rows),
          f \in TaskFaults, after \in BOOLEAN, log_raises \in BOOLEAN :
          LET result == process(record, failed, stop)
              o == IF result.valid_rows > 0 /\ ~f.init
                   THEN copy_valid_data(record.key, record.report_type,
                                        result, f.copy)
                   ELSE Outcome("NONE", <<>>)
              appended == [reports EXCEPT
                             !.results = Append(@,
                                 FileProcessingResult(record, result))]
          IN  IF raised
              THEN /\ reports' = except_branch(reports, log_raises)
                   /\ io' = io
              ELSE /\ reports' = IF after
                                 THEN except_branch(appended, log_raises)
                                 ELSE [appended EXCEPT !.k = @ + 1]
                   /\ io' = io \o o.ev
    /\ UNCHANGED <<processing, call, redshift, threads, batch, staging, ruleVars, pool>>

\* lines 193-200 and _execute_batch_copy up to its call of
\* batch_copy_with_manifest, which then runs as BatchCopyGroup, BatchReturn.
\* warn_raises: the log_warning of line 226 raises, and the handler of
\* line 270 ends _execute_batch_copy with no batch COPY.
ReportsBatch ==
    /\ reports.pc = "loop"
    /\ reports.k > Len(reports.s3_records)
    /\ batch.pc = "idle"
    /\ \E warn_raises \in IF warns_unknown(reports.s3_records, reports.results)
                           THEN BOOLEAN ELSE {FALSE} :
       LET file_batches == prepare_file_batches(reports.s3_records,
                                                reports.results) IN
       IF Len(reports.results) > 1 /\ ~warn_raises /\ Len(file_batches) > 1
       THEN /\ batch' = [BatchIdle EXCEPT !.pc = "loop",
                            !.files = file_batches,
                            !.order = group_files_by_type(file_batches).order]
            /\ reports' = [reports EXCEPT !.pc = "batch"]
       ELSE /\ reports' = [reports EXCEPT !.pc = "done"]
            /\ batch' = batch
    /\ UNCHANGED <<processing, call, redshift, threads, staging, io, ruleVars, pool>>

\* line 202: the batch COPY returned, process_reports returns its results
ReportsReturn ==
    /\ reports.pc = "batch"
    /\ batch.pc = "done"
    /\ reports' = [reports EXCEPT !.pc = "done"]
    /\ UNCHANGED <<processing, call, redshift, threads, batchVars, ruleVars, pool>>

\* ------------------------------- processors/expense.py, inventory.py
\* ExpenseProcessor.process and InventoryProcessor.process run the same
\* loop over the rows of the file (expense.py lines 43-61, inventory.py
\* lines 38-75); the line numbers below are those of inventory.py.
\*
\* A row of the file: not a dict; or a dict for which transform_data or
\* validate_with_business_rules raises; or a dict with the field errors
\* its validator finds and the violations execute_rules returns for it.
RowInputs ==
    {[is_dict |-> FALSE, raises |-> FALSE, field_errors |-> <<>>,
      violations |-> <<>>],
     [is_dict |-> TRUE, raises |-> TRUE, field_errors |-> <<>>,
      violations |-> <<>>]}
    \cup [is_dict : {TRUE}, raises : {FALSE},
          field_errors : {<<>>, <<"ERROR">>, <<"CRITICAL">>},
          violations : {<<>>, <<"v">>}]

\* validate_with_business_rules for the row (base.py lines 46-54), with
\* the row_index of line 64
validation_result(row_data, row_index) ==
    [row_index |-> row_index]
    @@ Verdict(row_data.field_errors,
               ~skip_business_rules(row_data.field_errors),
               IF skip_business_rules(row_data.field_errors) THEN <<>>
               ELSE row_data.violations,
               FALSE)

\* lines 24-32
NoStats == [total_rows |-> 0, valid_rows |-> 0, invalid_rows |-> 0,
            business_rule_violations |-> 0]

\* a count that takes a row for valid when it has no field error
count_by_field_errors(processing_stats, result) ==
    [processing_stats EXCEPT
        !.total_rows = @ + 1,
        !.valid_rows = IF result.field_errors = <<>> THEN @ + 1 ELSE @,
        !.invalid_rows = IF result.field_errors = <<>> THEN @ ELSE @ + 1]

\* lines 67-73
update_stats(processing_stats, result) ==
    [processing_stats EXCEPT
        !.total_rows = @ + 1,
        !.valid_rows = IF result.is_valid THEN @ + 1 ELSE @,
        !.invalid_rows = IF result.is_valid THEN @ ELSE @ + 1,
        !.business_rule_violations =
            IF result.is_valid THEN @ ELSE @ + Len(result.business_violations)]

ProcessIdle == [pc |-> "idle", rows |-> <<>>, row_index |-> 0,
                processing_stats |-> NoStats, validation_results |-> <<>>,
                status |-> "NONE"]

\* lines 83-99: the handler returns the counts so far with status FAILED
process_failed(p) == [p EXCEPT !.pc = "returned", !.status = "FAILED"]

\* process(bucket, key) is called on a file
ProcessStart ==
    /\ processing.pc = "idle"
    /\ \E rows \in SeqsUpTo(RowInputs, MaxRows) :
          processing' = [ProcessIdle EXCEPT !.pc = "loop", !.rows = rows]
    /\ UNCHANGED <<call, redshift, threads, batchVars, ruleVars, pool,
                   reports>>

\* lines 41-75 for the next row
process_row(p, row_data, row_index) ==
    IF ~row_data.is_dict THEN [p EXCEPT !.row_index = row_index]
    ELSE IF row_data.raises THEN process_failed(p)
    ELSE [p EXCEPT
            !.row_index = row_index,
            !.processing_stats =
                update_stats(@, validation_result(row_data, row_index)),
            !.validation_results =
                Append(@, validation_result(row_data, row_index))]

ProcessRow ==
    /\ processing.pc = "loop"
    /\ processing.row_index < Len(processing.rows)
    /\ processing' = process_row(processing,
                         processing.rows[processing.row_index + 1],
                         processing.row_index + 1)
    /\ UNCHANGED <<call, redshift, threads, batchVars, ruleVars, pool,
                   reports>>

\* line 38: reading the next batch of the file raises
ProcessReadFault ==
    /\ processing.pc = "loop"
    /\ processing.row_index < Len(processing.rows)
    /\ processing' = process_failed(processing)
    /\ UNCHANGED <<call, redshift, threads, batchVars, ruleVars, pool,
                   reports>>

\* lines 77-81: cleanup, inside the try block, then status SUCCESS
ProcessReturn ==
    /\ processing.pc = "loop"
    /\ processing.row_index = Len(processing.rows)
    /\ \E cleanup_raises \in BOOLEAN :
          processing' = IF cleanup_raises THEN process_failed(processing)
                        ELSE [processing EXCEPT !.pc = "returned",
                                                !.status = "SUCCESS"]
    /\ UNCHANGED <<call, redshift, threads, batchVars, ruleVars, pool,
                   reports>>

\* ------------------------------------------------------- specifications
Init ==
    /\ batch = BatchIdle
    /\ staging = {}
    /\ io = <<>>
    /\ rule_store \in [RuleCategories -> RuleSets]
    /\ rules_cache = [t \in RuleCategories |-> Miss]
    /\ compiled_expressions = [id \in RuleIds |-> NotCompiled]
    /\ optimized_cache = [t \in RuleCategories |-> Miss]
    /\ fast_fail_enabled = TRUE
    /\ exec = ExecIdle
    /\ pool = PoolIdle
    /\ reports = ReportsIdle
    /\ call = CallIdle
    /\ redshift = RedshiftIdle
    /\ threads = [i \in Threads |-> ThreadIdle]
    /\ processing = ProcessIdle

\* The batch COPY manager alone; the rules table plays no part in it.
InitBatch == Init /\ rule_store = [t \in RuleCategories |-> <<>>]

NextBatch == BatchStart \/ BatchCopyGroup \/ BatchReturn

SpecBatch == InitBatch /\ [][NextBatch]_vars

\* The business rules validator alone.
NextRules == SetFastFail \/ ClearCache \/ ExecuteRules

SpecRules == Init /\ [][NextRules]_vars

\* batch_copy_files and its worker pool alone.
NextPool ==
    PoolSubmit \/ WorkerStart \/ WorkerFinish \/ PoolCollect \/ PoolReturn

SpecPool == InitBatch /\ [][NextPool]_vars

\* batch_copy_files with tasks that may never end.  The threads of the
\* executor and the calling thread are scheduled: a queued task is started
\* when a worker is free, a task that can end does end, a finished future
\* is yielded, and the call returns once every future was yielded.
NextTimeout == NextPool \/ WorkerHang

SpecTimeout ==
    /\ InitBatch /\ [][NextTimeout]_vars
    /\ WF_vars(WorkerStart) /\ WF_vars(WorkerFinish)
    /\ WF_vars(PoolCollect) /\ WF_vars(PoolReturn)

\* _group_files_by_type applied to every list of file batches.
NextGroup == GroupFiles

SpecGroup == InitBatch /\ [][NextGroup]_vars

\* The namespaces of the two eval-based evaluators, for every record shape.
NextScope == EvaluateScopes

SpecScope == InitBatch /\ [][NextScope]_vars

\* The validator while the rules table is updated and the cache cleared.
NextCache == ExecuteRulesCall \/ ClearCache \/ UpdateRule

\* It starts with a table of at most one rule per category.
InitCache == Init /\ \A t \in RuleCategories : Len(rule_store[t]) <= 1

SpecCache == InitCache /\ [][NextCache]_vars

\* One validator used for two categories.
NextCategories == ExecuteRules \/ ExecuteOtherCategory

SpecCategories == InitCache /\ [][NextCategories]_vars

\* One run of a processor over the rows of a file.
NextProcess ==
    ProcessStart \/ ProcessRow \/ ProcessReadFault \/ ProcessReturn

SpecProcess == InitBatch /\ [][NextProcess]_vars

\* Two threads in execute_rules on a validator that has cached nothing.
NextThreads == ThreadsCall \/ ThreadStep

SpecThreads == InitCache /\ [][NextThreads]_vars

\* process_reports, with the batch COPY it ends with.
NextReports ==
    \/ ReportsStart \/ ReportsRecord \/ ReportsBatch \/ ReportsReturn
    \/ BatchCopyGroup \/ BatchReturn

SpecReports == InitBatch /\ [][NextReports]_vars

\* A processor validating one record after another.
NextValidate == Validate

SpecValidate == Init /\ [][NextValidate]_vars

\* The two range evaluators applied to every expression and record.
NextEvaluate == EvaluateRange

SpecEvaluate == InitBatch /\ [][NextEvaluate]_vars

\* copy_valid_data called for one file after another.
NextIntegration == CopyValidData

SpecIntegration == InitBatch /\ [][NextIntegration]_vars

\* Operations called one after another on one RedshiftService.
NextRedshift == RsEnter \/ RsExit \/ RsClose

SpecRedshift == InitBatch /\ [][NextRedshift]_vars

Next ==
    NextBatch \/ NextRules \/ NextPool \/ NextReports \/ NextValidate
    \/ NextEvaluate \/ NextIntegration \/ NextRedshift \/ NextTimeout
    \/ NextGroup \/ NextScope \/ NextCache \/ NextThreads
    \/ NextCategories \/ NextProcess

Spec == Init /\ [][Next]_vars

\* ------------------------------------------------- the batch COPY claims

\* Eligibility as the specification defines it: summary status SUCCESS
\* and valid_rows > 0.
Eligible(fb) ==
    /\ fb.validation_summary.status = "SUCCESS"
    /\ fb.validation_summary.valid_rows > 0

EligibleOf(t) ==
    SelectSeq(batch.files, LAMBDA b : b.report_type = t /\ Eligible(b))

CandidatesOf(t) == SelectSeq(batch.files, LAMBDA b : b.report_type = t)

EventsOf(t) == SelectSeq(io, LAMBDA e : e.cat = t)

Returned(t) == batch.results[t] # "NONE"

\* C3: when batch_copy_with_manifest has returned, its result carries a
\* results map with one entry for every category of the input, whatever
\* failed or raised while the categories were loaded.
C3_CompleteResultMap ==
    batch.pc = "done" =>
        /\ batch.ret = "SUCCESS"
        /\ \A t \in Range(batch.order) : Returned(t)

\* C5: a manifest written to staging does not outlive its category's load:
\* once the load has returned, the manifest is gone or, at the least, its
\* delete was issued (and failed at the store).
C5_ManifestDeletedOnEveryExit ==
    \A m \in staging :
        Returned(m.cat) =>
            \E i \in DOMAIN io : io[i].op = "delete" /\ io[i].cat = m.cat

\* C6: a category with exactly one eligible candidate is loaded by one
\* direct load and no manifest is written for it, however many ineligible
\* candidates share the category.
C6_SingleEligibleDirect ==
    \A t \in ReportTypes :
        (Returned(t) /\ Len(EligibleOf(t)) = 1) =>
            /\ \A i \in DOMAIN io : io[i].cat = t => io[i].op = "copy_direct"
            /\ Len(EventsOf(t)) = 1

\* C7: a category none of whose candidates is eligible gets SKIPPED and no
\* manifest write and no load command is issued for it.
C7_ZeroEligibleSkipped ==
    \A t \in Range(batch.order) :
        (Returned(t) /\ Len(EligibleOf(t)) = 0) =>
            /\ batch.results[t] = "SKIPPED"
            /\ EventsOf(t) = <<>>

\* C8: for a category with two or more eligible candidates the manifest
\* written lists exactly the eligible candidates (status SUCCESS and
\* valid_rows > 0), once each, in arrival order, each mandatory.
C8_ManifestIsEligibleCandidates ==
    \A i \in DOMAIN io :
        (io[i].op = "put" /\ Len(EligibleOf(io[i].cat)) >= 2) =>
            io[i].entries =
                [j \in DOMAIN EligibleOf(io[i].cat) |->
                    [url |-> EligibleOf(io[i].cat)[j].s3_path,
                     mandatory |-> TRUE]]



\* the groups of the last grouping call in which batch b is found, each
\* with the position b has there
PlacesOf(b) ==
    {<<t, i>> \in ReportTypes \X (1..MaxFiles + 1) :
        /\ i \in DOMAIN call.grouped.files[t]
        /\ call.grouped.files[t][i] = b}

\* C22: grouping puts every candidate in exactly one group, the group of
\* its own category, drops and duplicates none, keeps arrival order within
\* each group, has a key for exactly the categories present, and leaves
\* the input list as it was.
C22_GroupingIsStablePartition ==
    call.op = "group" =>
        /\ \A k \in DOMAIN call.file_batches :
              /\ Cardinality(PlacesOf(call.file_batches[k])) = 1
              /\ \A pl \in PlacesOf(call.file_batches[k]) :
                    pl[1] = call.file_batches[k].report_type
        /\ \A t \in ReportTypes :
              call.grouped.files[t] =
                 SelectSeq(call.file_batches, LAMBDA b : b.report_type = t)
        /\ Range(call.grouped.order) =
              {call.file_batches[k].report_type : k \in DOMAIN call.file_batches}
        /\ Cardinality(Range(call.grouped.order)) = Len(call.grouped.order)
        /\ call.after = call.file_batches

\* two batches of one category with a batch of the other between them
C22_Witness ==
    /\ call.op = "group"
    /\ Len(call.file_batches) = 3
    /\ call.file_batches[1].report_type = "INVENTORY"
    /\ call.file_batches[2].report_type = "SALES"
    /\ call.file_batches[3].report_type = "INVENTORY"
    /\ call.grouped.order = <<"INVENTORY", "SALES">>
    /\ call.grouped.files["INVENTORY"] =
          <<call.file_batches[1], call.file_batches[3]>>
    /\ call.grouped.files["SALES"] = <<call.file_batches[2]>>

\* C26: when the write of a category's manifest to staging failed, no load
\* command is issued for the category and the result of its load is
\* FAILED; and every manifest COPY issued comes after a successful write
\* of the manifest it names, for the same category.
C26_WriteFailureAbortsLoad ==
    /\ \A i \in DOMAIN io :
          (io[i].op = "put" /\ ~io[i].ok) =>
              /\ batch.results[io[i].cat] = "FAILED"
              /\ \A j \in DOMAIN io :
                    io[j].cat = io[i].cat =>
                        io[j].op \notin {"copy_manifest", "copy_direct"}
    /\ \A i \in DOMAIN io :
          io[i].op = "copy_manifest" =>
              \E j \in 1..(i - 1) :
                  /\ io[j].op = "put" /\ io[j].ok
                  /\ io[j].cat = io[i].cat
                  /\ Urls(io[j].entries) = io[i].paths

\* the manifest of the first category could not be written and no load
\* was issued for it; the file of the next category was then loaded
C26_Witness ==
    /\ batch.pc = "done"
    /\ Len(io) = 2
    /\ io[1].op = "put" /\ ~io[1].ok
    /\ batch.results[io[1].cat] = "FAILED"
    /\ io[2].op = "copy_direct" /\ io[2].ok /\ io[2].cat # io[1].cat
    /\ batch.results[io[2].cat] = "SUCCESS"

\* C18: when a category's manifest COPY succeeded at the store, the result
\* returned for the category is SUCCESS even if deleting the staging
\* manifest failed afterwards.
C18_DeleteFailureKeepsLoad ==
    \A t \in ReportTypes :
        (/\ Returned(t)
         /\ \E i \in DOMAIN io :
               io[i].op = "copy_manifest" /\ io[i].cat = t /\ io[i].ok)
        => batch.results[t] = "SUCCESS"

\* ------------------------------------------------ rule engine properties
\* the sorted rule list the finished call of execute_rules ran over
RulesRun == optimized_cache[exec.report_type].rules

Finished == exec.pc = "done" /\ ~exec.raised

HasCritical ==
    \E i \in DOMAIN exec.violations : exec.violations[i].severity = "CRITICAL"

\* the last rule the call evaluated fired and is the one violation returned
StoppedAtCritical ==
    /\ Len(exec.violations) = 1
    /\ exec.violations[1].severity = "CRITICAL"
    /\ exec.log # <<>>
    /\ exec.log[Len(exec.log)] =
          [rule_id |-> exec.violations[1].rule_id, outcome |-> "FIRE"]

\* C1 as stated: whenever the returned list holds a violation of a CRITICAL
\* rule, evaluation stopped at it and it is the only violation returned.
C1_FastFailAlways == (Finished /\ HasCritical) => StoppedAtCritical

\* C1 amended: while fast-fail is enabled (the default, until
\* set_fast_fail(False)), a returned violation of a CRITICAL rule is the only
\* violation returned and the last rule evaluated.
C1_FastFailWhenEnabled ==
    (Finished /\ exec.fast_fail /\ HasCritical) => StoppedAtCritical

\* fast-fail was enabled, a CRITICAL rule fired, and the rule after it, with
\* the same expression and so firing on the same record, was not evaluated
C1_Witness ==
    /\ Finished /\ exec.fast_fail /\ HasCritical
    /\ Len(RulesRun) = 2 /\ Len(exec.log) = 1
    /\ RulesRun[2].severity = "ERROR"
    /\ RulesRun[2].has_name
    /\ RulesRun[2].validation_type = "RANGE"
    /\ RulesRun[1].validation_type = "RANGE"
    /\ RulesRun[2].rule_expression = RulesRun[1].rule_expression

\* C9: a fault raised while one rule is evaluated records no violation for
\* that rule, the rules after it in the sorted list are still evaluated in
\* order, and execute_rules returns.
C9_FaultIsNotFired ==
    (exec.pc = "done" /\ exec.log # <<>>) =>
        /\ ~exec.raised
        /\ Len(exec.log) <= Len(RulesRun)
        /\ \A i \in DOMAIN exec.log :
              /\ exec.log[i].rule_id = RulesRun[i].rule_id
              /\ exec.log[i].outcome = "FAULT" =>
                    /\ \A j \in DOMAIN exec.violations :
                          exec.violations[j].rule_id # exec.log[i].rule_id
                    /\ i < Len(RulesRun) => i < Len(exec.log)

\* a rule faulted and the rule after it was evaluated and fired
C9_Witness ==
    /\ Finished
    /\ Len(exec.log) = 2
    /\ exec.log[1].outcome = "FAULT"
    /\ exec.log[2].outcome = "FIRE"
    /\ Len(exec.violations) = 1
    /\ exec.violations[1].rule_id = exec.log[2].rule_id

\* a RANGE expression of the form field, operator, literal
WellFormedRange(expression) ==
    LET m == range_match(expression) IN
    /\ m.ok
    /\ \A i \in DOMAIN m.value : m.value[i] \notin {">", "<", "=", "!"}

\* C10: a RANGE rule whose expression is malformed never fires, whatever
\* the record holds: no returned violation comes from such a rule.
C10_MalformedRangeNeverFires ==
    Finished =>
        \A j \in DOMAIN exec.violations :
            \A i \in DOMAIN RulesRun :
                (/\ RulesRun[i].rule_id = exec.violations[j].rule_id
                 /\ RulesRun[i].validation_type = "RANGE")
                    => WellFormedRange(RulesRun[i].rule_expression)

\* the rule of the list the last call ran that has this rule_id
RuleRun(rule_id) == CHOOSE r \in Range(RulesRun) : r.rule_id = rule_id

\* the severity of the rule attempted at position i of the last call
AttemptedSeverity(i) == RuleRun(exec.log[i].rule_id).severity

SeverityRank(severity) ==
    CASE severity = "CRITICAL" -> 0 [] severity = "ERROR" -> 1
      [] severity = "WARNING" -> 2 [] severity = "INFO" -> 3

\* C13: execute_rules attempts the rules of a category in ascending
\* severity rank CRITICAL < ERROR < WARNING < INFO, and when it attempts an
\* ERROR rule every CRITICAL rule of the category has been attempted before.
C13_SeverityOrdering ==
    Finished =>
        /\ \A i, j \in DOMAIN exec.log :
              i < j => SeverityRank(AttemptedSeverity(i))
                          <= SeverityRank(AttemptedSeverity(j))
        /\ \A j \in DOMAIN exec.log :
              AttemptedSeverity(j) = "ERROR" =>
                 \A r \in Range(RulesRun) :
                    r.severity = "CRITICAL" =>
                       \E i \in 1..(j - 1) : exec.log[i].rule_id = r.rule_id

\* the table lists an ERROR rule before a CRITICAL one; the call attempted
\* the CRITICAL one first, then the ERROR one
C13_Witness ==
    /\ Finished
    /\ Len(rule_store[exec.report_type]) = 2
    /\ rule_store[exec.report_type][1].severity = "ERROR"
    /\ rule_store[exec.report_type][2].severity = "CRITICAL"
    /\ Len(exec.log) = 2
    /\ exec.log[1].rule_id = 2
    /\ exec.log[2].rule_id = 1

\* C12: validate_with_business_rules never lets an exception reach its
\* caller: whatever rules the table holds, the call returns a verdict.
C12_ValidateReturnsVerdict ==
    call.op = "validate" => ~call.raised

\* field validation gave at least one error of severity CRITICAL
CriticalFieldError(c) ==
    /\ c.op = "validate"
    /\ \E i \in DOMAIN c.field_errors : c.field_errors[i] = "CRITICAL"

\* C14: when field validation returns an error of severity CRITICAL,
\* validate does not run the business rules for that record: the verdict
\* has no business violation and the rule engine is not touched (no rule
\* list loaded, no rule compiled, no rule evaluated).  Otherwise the rules
\* are run and the verdict holds the violations execute_rules returned.
C14_ShortCircuit ==
    /\ [](call.op = "validate" =>
            IF CriticalFieldError(call)
            THEN /\ ~call.invoked
                 /\ ~call.raised
                 /\ call.business_violations = <<>>
            ELSE /\ call.invoked
                 /\ ~call.raised
                 /\ exec.pc = "done"
                 /\ call.business_violations = exec.violations)
    /\ [][(CriticalFieldError(call') /\ call' # call)
             => UNCHANGED ruleVars]_vars

\* the field the compiled rule of the last range call refers to is absent
\* from (or None in) the record
FieldAbsent ==
    /\ call.op = "range"
    /\ call.compiled.type = "range"
    /\ data_get(call.data, call.compiled.field) = VNone

\* C11: for a RANGE rule whose expression compiles and a record in which the
\* referenced field is absent or None, neither the compiled evaluation nor
\* the uncompiled one raises, and neither reports a violation.
C11_AbsentFieldNeverFires ==
    FieldAbsent => /\ call.compiled_result = "F"
                   /\ call.fallback_result = "F"

\* the field q is None in the record, and the operator is one that would
\* hold between None and a number
C11_Witness ==
    /\ FieldAbsent
    /\ call.compiled.field = <<"q">>
    /\ call.compiled.operator = <<"!", "=">>
    /\ call.compiled.value = VInt(5)
    /\ call.compiled_result = "F"
    /\ call.fallback_result = "F"

\* what execute_rules gives for `rules` when nothing was cached or compiled
\* before: the rules sorted, every one compiled from its own expression
FreshRun(rules, data, fast_fail) ==
    execute_loop(sorted_rules(rules),
                 compile_all(sorted_rules(rules),
                             [id \in RuleIds |-> NotCompiled]),
                 data, fast_fail)

\* C24: an execute_rules that finds the category's rule cache empty (never
\* filled, or emptied by clear_cache) reads the rules from the table and
\* evaluates with forms compiled from what it read: it returns what a
\* validator with nothing cached returns for the table as it stands, so a
\* rule update made before the clear takes effect.
C24_ClearCacheTakesEffect ==
    (/\ call.op = "execute_rules"
     /\ ~call.cached /\ ~call.db_fault
     /\ ~compile_raises(sorted_rules(call.rules)))
    => /\ ~exec.raised
       /\ exec.violations =
             FreshRun(call.rules, call.data, exec.fast_fail).violations
       /\ exec.log = FreshRun(call.rules, call.data, exec.fast_fail).log

\* every thread left execute_rules, and no read of the table failed
ThreadsEnded ==
    \A i \in Threads :
        threads[i].pc \in {"done", "raised"} /\ ~threads[i].faulted

\* C25: when two threads call execute_rules for the same category on a
\* validator that has cached nothing, then however their steps interleave
\* the rule cache ends up holding the table's whole list, there is one
\* whole compiled form for every rule that compiles, and each call returns
\* what a call made alone returns for its record (or raises as it does).
C25_ConcurrentPopulationBenign ==
    ThreadsEnded =>
        \A t \in RuleCategories :
            /\ rules_cache[t] = Hit(rule_store[t])
            /\ compiled_expressions =
                  compile_all(sorted_rules(rule_store[t]),
                              [id \in RuleIds |-> NotCompiled])
            /\ IF compile_raises(sorted_rules(rule_store[t]))
               THEN /\ ~optimized_cache[t].hit
                    /\ \A i \in Threads : threads[i].pc = "raised"
               ELSE /\ optimized_cache[t] = Hit(sorted_rules(rule_store[t]))
                    /\ \A i \in Threads :
                          /\ threads[i].pc = "done"
                          /\ threads[i].violations =
                                FreshRun(rule_store[t], threads[i].data,
                                         fast_fail_enabled).violations
                          /\ threads[i].log =
                                FreshRun(rule_store[t], threads[i].data,
                                         fast_fail_enabled).log

\* both threads read the table and both compiled the same rule, which
\* fired for the record of one thread and not for the other's
C25_Witness ==
    /\ ThreadsEnded
    /\ \A i \in Threads : threads[i].queried /\ threads[i].stored # {}
    /\ threads[1].stored = threads[2].stored
    /\ threads[1].violations # <<>>
    /\ threads[2].violations = <<>>

\* C29: a category's rules are evaluated with the comparisons of their
\* own expressions, whatever another category that uses the same rule_ids
\* left in the validator: the first call for a category returns what a
\* validator used for that category alone returns.
C29_NoCrossCategoryConfusion ==
    (call.op = "other_category" /\ ~call.db_fault) =>
        /\ call.raised = compile_raises(sorted_rules(call.rules))
        /\ ~call.raised =>
              /\ call.violations =
                    FreshRun(call.rules, call.data, fast_fail_enabled).violations
              /\ call.log =
                    FreshRun(call.rules, call.data, fast_fail_enabled).log

\* the functions the specification allows a rule text to call
AllowedFunctions == {"abs", "min", "max", "round", "len", "sum"}

\* C23: when a COMPARISON or EXPRESSION rule is evaluated, the names its
\* text can resolve are exactly the record's fields and the functions abs,
\* min, max, round, len, sum: every name is bound to a field or to one of
\* these functions, none to a type, class, module or anything else, and
\* the names are the same for the two rule kinds.
C23_StrictAllowList ==
    call.op = "scope" =>
        /\ DOMAIN call.comparison = call.fields \cup AllowedFunctions
        /\ DOMAIN call.expression = call.fields \cup AllowedFunctions
        /\ \A n \in DOMAIN call.comparison :
              call.comparison[n] \in {"field", "function"}
        /\ \A n \in DOMAIN call.expression :
              call.expression[n] \in {"field", "function"}

\* ---------------------------------------------------- worker pool properties
\* what batch_copy_files returns for a task whose future holds `out`
ResultOf(out) == IF out = "RAISE" THEN "FAILED" ELSE out

ResultsFor(i) == {j \in DOMAIN pool.results : pool.results[j].s3_path = i}

\* C4: when batch_copy_files returns, every submitted task ran to its end,
\* the list holds exactly one result per submitted item, a task that raised
\* has a FAILED result, and every other item's result is the status its own
\* task returned, whatever its siblings did.
C4_PerTaskFailureIsolation ==
    pool.pc = "returned" =>
        /\ Len(pool.results) = Len(pool.file_batches)
        /\ \A i \in DOMAIN pool.file_batches :
              /\ pool.future[i] \in FutureDone
              /\ Cardinality(ResultsFor(i)) = 1
              /\ \A j \in ResultsFor(i) :
                    pool.results[j].status = ResultOf(pool.future[i])

\* a task raised, its FAILED result was collected first, and a sibling
\* collected after it still returned SUCCESS
C4_Witness ==
    /\ pool.pc = "returned"
    /\ Len(pool.results) >= 2
    /\ pool.future[pool.results[1].s3_path] = "RAISE"
    /\ pool.results[1].status = "FAILED"
    /\ pool.results[Len(pool.results)].status = "SUCCESS"

C21_TimeoutAbandons ==
    /\ (pool.pc = "running") ~> (pool.pc = "returned")
    /\ \A i \in 1..MaxTasks :
          (i \in DOMAIN pool.future /\ pool.future[i] = "HUNG")
             ~> (\E j \in DOMAIN pool.results :
                    /\ pool.results[j].s3_path = i
                    /\ pool.results[j].status = "FAILED")

\* ------------------------------------------------- report load properties
\* process_reports has ended: it returned its results or raised
ReportsEnded == reports.pc \in {"done", "raised"}

\* C15: process_reports always returns, with exactly one result for every
\* input record, in input order, whatever fails while a record is
\* processed, loaded, measured or cleaned up.
C15_OneResultPerRecord ==
    ReportsEnded =>
        /\ reports.pc = "done"
        /\ Len(reports.results) = Len(reports.s3_records)
        /\ \A i \in DOMAIN reports.results :
              reports.results[i].file_location = reports.s3_records[i].key

\* C16: a record whose category cannot be determined from its key does not
\* end the run: it is reported for that record only and the records after
\* it are still processed.
C16_UnknownCategorySkipped ==
    \A i \in DOMAIN reports.s3_records :
        reports.s3_records[i].report_type = UnknownCategory =>
            ~(reports.pc = "raised" /\ reports.k = i)

\* the files a successful COPY, direct or by manifest, put into the target
LoadedFiles ==
    {p \in DOMAIN reports.s3_records :
        \E i \in DOMAIN io :
            /\ io[i].ok
            /\ io[i].op \in {"copy_valid", "copy_direct", "copy_manifest"}
            /\ p \in Range(io[i].paths)}

\* C2: the rows a load puts into the target are rows validation judged
\* valid: no row of a loaded file is one that was found invalid.
C2_OnlyValidRowsLoaded ==
    \A p \in LoadedFiles :
        \A j \in DOMAIN reports.s3_records[p].rows :
            reports.s3_records[p].rows[j]

\* the commands that submitted file p to the target: a COPY of the file
\* itself or of a manifest that lists it
SubmissionsOf(p) ==
    {i \in DOMAIN io :
        /\ io[i].op \in {"copy_valid", "copy_direct", "copy_manifest"}
        /\ p \in Range(io[i].paths)}

\* C27: within one run of process_reports every file is submitted to the
\* target at most once: a file copy_valid_data loaded by itself is not
\* loaded again by the batch COPY at the end of the run.
C27_NoDoubleLoad ==
    \A p \in DOMAIN reports.s3_records : Cardinality(SubmissionsOf(p)) <= 1

\* the manifests written that list file p
ManifestsOf(p) ==
    {i \in DOMAIN io : io[i].op = "put" /\ p \in Range(io[i].paths)}

\* C28: a file whose processing summary has status FAILED is never
\* submitted to a load nor listed in a manifest, valid rows counted before
\* the failure notwithstanding.
C28_FailedSourceNeverLoaded ==
    \A p \in DOMAIN reports.s3_records \cap DOMAIN reports.results :
        (/\ reports.results[p].file_location = reports.s3_records[p].key
         /\ reports.results[p].status = "FAILED")
        => SubmissionsOf(reports.s3_records[p].key)
              \cup ManifestsOf(reports.s3_records[p].key) = {}

\* --------------------------------------------------- row accounting
\* the rows of the file validated so far, by their row_index
Validated ==
    {j \in 1..processing.row_index :
        processing.rows[j].is_dict /\ ~processing.rows[j].raises}

\* a verdict without field error and without business violation
Clean(result) == result.field_errors = <<>> /\ result.business_violations = <<>>

\* C30: after every row of a processor's run and in the summary it
\* returns, with status SUCCESS or FAILED, total_rows = valid_rows +
\* invalid_rows; every row validated so far was counted once, in one of
\* the two; and the rows counted valid are those whose verdict has no
\* field error and no business violation.
C30_RowAccounting ==
    LET stats == processing.processing_stats
        results == processing.validation_results
    IN  /\ stats.total_rows = stats.valid_rows + stats.invalid_rows
        /\ stats.total_rows = Cardinality(Validated)
        /\ Len(results) = stats.total_rows
        /\ {results[j].row_index : j \in DOMAIN results} = Validated
        /\ stats.valid_rows =
              Cardinality({j \in DOMAIN results : Clean(results[j])})
        /\ stats.invalid_rows =
              Cardinality({j \in DOMAIN results : ~Clean(results[j])})
        /\ processing.pc = "returned" =>
              processing.status \in {"SUCCESS", "FAILED"}

\* a run that failed on its last row after counting a valid row and a row
\* whose only fault is a business violation
C30_Witness ==
    /\ processing.pc = "returned"
    /\ processing.status = "FAILED"
    /\ processing.row_index = 2
    /\ Len(processing.rows) = 3
    /\ processing.processing_stats.valid_rows = 1
    /\ processing.processing_stats.invalid_rows = 1
    /\ \E j \in DOMAIN processing.validation_results :
          /\ processing.validation_results[j].field_errors = <<>>
          /\ processing.validation_results[j].business_violations # <<>>

\* ------------------------------------------------ the integration claims

\* C19: the audit record is written only after a load whose status is
\* SUCCESS, and a failure while writing it neither changes the result of
\* that load, which stays SUCCESS, nor raises out of copy_valid_data.
C19_AuditBestEffort ==
    call.op = "copy_valid_data" =>
        /\ call.audit.attempted =>
              /\ call.copy = "SUCCESS"
              /\ call.validation_summary.status = "SUCCESS"
              /\ call.ev # <<>> /\ call.ev[1].ok
        /\ (call.audit.attempted /\ ~call.audit.written) =>
              call.status = "SUCCESS" /\ ~call.raised /\ ~call.audit.raised

C19_Witness ==
    /\ call.op = "copy_valid_data"
    /\ call.audit.attempted /\ ~call.audit.written
    /\ call.status = "SUCCESS"
    /\ call.ev[1].op = "copy_valid" /\ call.ev[1].ok

\* --------------------------------------------- the connection pool claims

\* the connections the operations in progress hold
InWithBlock == IF redshift.pc = "with" THEN 1 ELSE 0

\* C20: every connection a load, manifest load or query took from the pool
\* is back in the pool when the operation has returned or raised: between
\* operations the number of connections checked out is zero.
C20_NoConnectionLeak ==
    /\ redshift.used = InWithBlock
    /\ redshift.pc = "idle" => redshift.used = 0

C20_Witness ==
    /\ redshift.pc = "idle"
    /\ redshift.used = 0
    /\ \E i \in DOMAIN redshift.history :
          /\ redshift.history[i].op = "execute_query"
          /\ redshift.history[i].acquired
          /\ redshift.history[i].outcome = "RAISE"
    /\ \E i \in DOMAIN redshift.history :
          /\ redshift.history[i].op = "execute_manifest_copy"
          /\ redshift.history[i].acquired

====
